---- MODULE Spec2Model ----
(***************************************************************************)
(* The on-chain verification state machine of the Execution Kernel docs:   *)
(* MyVault.execute (docs/onchain/solidity-integration.md) with the         *)
(* KernelExecutionVerifier it calls (docs/onchain/verifier-overview.md).   *)
(*                                                                         *)
(* One transaction is one step.  The EVM runs transactions one at a time   *)
(* and a revert undoes every state change of the reverting call, so the    *)
(* whole of execute, the external calls of its actions and the calls those *)
(* make back into the vault included, is computed by ExecuteIn and applied *)
(* by the action Execute.                                                  *)
(*                                                                         *)
(* uint64 values are written as TLA+ integers: n >= 0 stands for n, and    *)
(* n < 0 stands for 2^64 + n (so -1 is 2^64 - 1).  U64Gt, U64Le and        *)
(* U64AddOverflows compute on that reading.                                *)
(*                                                                         *)
(* The wire formats (docs/kernel/input-format.md, the journal format and   *)
(* the two on-chain parsers) are modelled on byte strings, and the kernel  *)
(* run kernel_main_with_agent on top of them: SpecCodec uses the codec,    *)
(* SpecKernel runs the kernel, SpecEndToEnd hands the journal of a run to  *)
(* the vault.                                                              *)
(***************************************************************************)
EXTENDS Integers, Sequences, FiniteSets, TLC

VARIABLES
    agentId,             \* MyVault.agentId, per vault (immutable)
    trustedImageId,      \* MyVault.trustedImageId, per vault (immutable)
    lastExecutionNonce,  \* MyVault.lastExecutionNonce, per vault
    effects,             \* the external calls performed and not reverted, in order
    tx,                  \* the transaction that just ran and its outcome, or NoTx
    accepted,            \* history: the submissions accepted so far, in order
    kernel,              \* the last run of kernel_main_with_agent and its outcome, or NoRun
    previous,            \* the run before it on the same arguments, or NoRun
    codec,               \* the last use of the codec and its result, or NoCodec
    registry             \* AgentRegistry: the AgentInfo of each agent id

vars == <<agentId, trustedImageId, lastExecutionNonce, effects, tx, accepted, kernel, previous, codec, registry>>

----------------------------------------------------------------------------
\* Bounds of the model

\* The longest log of performed calls a run may build.
MaxEffects == 2

\* How deep calls back into execute may nest (the EVM's call depth limit).
MaxCallDepth == 2

\* the vaults the factory deploys at most
MaxVaults == 2

----------------------------------------------------------------------------
\* Program constants

JOURNAL_LENGTH == 209
PROTOCOL_VERSION == 1
KERNEL_VERSION == 1
EXECUTION_STATUS_SUCCESS == 1
EXECUTION_STATUS_FAILURE == 2
MAX_NONCE_GAP == 100
ACTION_TYPE_CALL == 2
ACTION_TYPE_TRANSFER_ERC20 == 3
ACTION_TYPE_NO_OP == 4
CALL_VALUE_BYTES == 8

----------------------------------------------------------------------------
\* uint64 arithmetic (Solidity 0.8: checked)

U64Gt(a, b) == IF (a >= 0) = (b >= 0) THEN a > b ELSE a < 0

U64Le(a, b) == ~U64Gt(a, b)

\* a + k does not fit in 64 bits (k a small non-negative number)
U64AddOverflows(a, k) == a < 0 /\ a + k >= 0

----------------------------------------------------------------------------
\* Digests

Sha256(bytes) == <<"sha256", bytes>>

NoTx == [vault |-> "none"]

NoRun == [agent |-> "none"]

NoCodec == [op |-> "none"]

----------------------------------------------------------------------------
\* The deployed instances and the values submissions are built from

Vaults == {"v1", "v2"}

\* bytes32 image ids; 0 is bytes32(0)
ImageIds == {1, 2}

AgentIds == {"agentA", "agentB"}

\* the constructor arguments of each instance
DeployedAgentId == [v \in Vaults |-> IF v = "v1" THEN "agentA" ELSE "agentB"]

DeployedImageId == [v \in Vaults |-> IF v = "v1" THEN 1 ELSE 2]

\* IAgentRegistry.AgentInfo
AgentInfo(author, imageId, agentCodeHash, metadataURI, exists) ==
    [author |-> author, imageId |-> imageId, agentCodeHash |-> agentCodeHash,
     metadataURI |-> metadataURI, exists |-> exists]

\* The contracts an action may call: one that returns, one that reverts, and
\* three that call execute again: with the triple being executed, with a valid
\* triple of the nonce before it, and with a valid triple of the nonce after
\* it.  Those three ignore the outcome of that call and return.
Reentering == {"tReplay", "tOlder", "tNext"}

Targets == {"tOk", "tFail"} \cup Reentering

Call(target) ==
    [actionType |-> ACTION_TYPE_CALL, target |-> target, payloadLen |-> CALL_VALUE_BYTES]

NoOp == [actionType |-> ACTION_TYPE_NO_OP, target |-> "tOk", payloadLen |-> 0]

Journal(len, pv, kv, agent, nonce, commitment, status) ==
    [agentId |-> agent, len |-> len, protocolVersion |-> pv, kernelVersion |-> kv,
     executionNonce |-> nonce, actionCommitment |-> commitment,
     executionStatus |-> status]

\* a seal is a proof that the program imageId produced the journal of that digest
Receipt(imageId, journal) == [imageId |-> imageId, journalDigest |-> Sha256(journal)]

Submission(journal, seal, agentOutput) ==
    [journal |-> journal, seal |-> seal, agentOutput |-> agentOutput]

\* the triple an honest prover hands in for vault v: a Success journal of the
\* bound agent committing to agentOutput, proved under the pinned image
ValidTriple(v, nonce, agentOutput) ==
    LET j == Journal(JOURNAL_LENGTH, PROTOCOL_VERSION, KERNEL_VERSION,
                     DeployedAgentId[v], nonce, Sha256(agentOutput),
                     EXECUTION_STATUS_SUCCESS)
    IN  Submission(j, Receipt(DeployedImageId[v], j), agentOutput)

----------------------------------------------------------------------------
\* KernelExecutionVerifier

\* the RISC Zero verifier: accepts exactly the seals proving this image and digest
RiscZeroVerify(seal, imageId, journalDigest) ==
    seal.imageId = imageId /\ seal.journalDigest = journalDigest

\* a verifier that turns away only journals shorter than JOURNAL_LENGTH
VerifierChecksAtLeastLength(expectedImageId, journal, seal) ==
    << [name |-> "imageId", holds |-> expectedImageId # 0,
        reason |-> "Invalid imageId"],
       [name |-> "length", holds |-> journal.len >= JOURNAL_LENGTH,
        reason |-> "Invalid journal length"],
       [name |-> "proof",
        holds |-> RiscZeroVerify(seal, expectedImageId, Sha256(journal)),
        reason |-> "Invalid proof"] >>

\* verifyAndParseWithImageId, as the requirements it makes in order
VerifierChecks(expectedImageId, journal, seal) ==
    << [name |-> "imageId", holds |-> expectedImageId # 0,
        reason |-> "Invalid imageId"],
       [name |-> "length", holds |-> journal.len = JOURNAL_LENGTH,
        reason |-> "Invalid journal length"],
       [name |-> "proof",
        holds |-> RiscZeroVerify(seal, expectedImageId, Sha256(journal)),
        reason |-> "Invalid proof"] >>

----------------------------------------------------------------------------
\* MyVault.execute

\* require(parsed.protocolVersion == 1), require(parsed.kernelVersion == 1)
VersionChecks(parsed) ==
    << [name |-> "protocolVersion",
        holds |-> parsed.protocolVersion = PROTOCOL_VERSION,
        reason |-> "Unsupported protocol"],
       [name |-> "kernelVersion",
        holds |-> parsed.kernelVersion = KERNEL_VERSION,
        reason |-> "Unsupported kernel"] >>

\* require(parsed.agentId == agentId)
AgentCheck(parsed, boundAgentId) ==
    << [name |-> "agentId", holds |-> parsed.agentId = boundAgentId,
        reason |-> "Wrong agent"] >>

\* a vault that checks the gap but not that the nonce is above the last one
NonceChecksGapOnly(parsed, last) ==
    << [name |-> "nonce", holds |-> TRUE, reason |-> "Invalid nonce"],
       [name |-> "nonceGap",
        holds |-> /\ ~U64AddOverflows(last, MAX_NONCE_GAP)
                  /\ U64Le(parsed.executionNonce, last + MAX_NONCE_GAP),
        reason |-> "Nonce gap too large"] >>

\* a vault that sets no limit to the gap
NonceChecksAnyGap(parsed, last) ==
    << [name |-> "nonce", holds |-> U64Gt(parsed.executionNonce, last),
        reason |-> "Invalid nonce"],
       [name |-> "nonceGap", holds |-> TRUE, reason |-> "Nonce gap too large"] >>

\* a vault that requires executionNonce >= lastExecutionNonce
NonceChecksAtLeast(parsed, last) ==
    << [name |-> "nonce", holds |-> ~U64Gt(last, parsed.executionNonce),
        reason |-> "Invalid nonce"],
       [name |-> "nonceGap",
        holds |-> /\ ~U64AddOverflows(last, MAX_NONCE_GAP)
                  /\ U64Le(parsed.executionNonce, last + MAX_NONCE_GAP),
        reason |-> "Nonce gap too large"] >>

\* a vault whose lastExecutionNonce + 100 stops at the largest uint64
NonceChecksSaturating(parsed, last) ==
    << [name |-> "nonce", holds |-> U64Gt(parsed.executionNonce, last),
        reason |-> "Invalid nonce"],
       [name |-> "nonceGap",
        holds |-> \/ U64AddOverflows(last, MAX_NONCE_GAP)
                  \/ U64Le(parsed.executionNonce, last + MAX_NONCE_GAP),
        reason |-> "Nonce gap too large"] >>

\* require(parsed.executionNonce > lastExecutionNonce)
\* require(parsed.executionNonce <= lastExecutionNonce + 100)
NonceChecks(parsed, last) ==
    << [name |-> "nonce", holds |-> U64Gt(parsed.executionNonce, last),
        reason |-> "Invalid nonce"],
       [name |-> "nonceGap",
        holds |-> /\ ~U64AddOverflows(last, MAX_NONCE_GAP)
                  /\ U64Le(parsed.executionNonce, last + MAX_NONCE_GAP),
        reason |-> IF U64AddOverflows(last, MAX_NONCE_GAP)
                   THEN "Panic: arithmetic overflow"
                   ELSE "Nonce gap too large"] >>

\* a vault that turns away the status Failure only
StatusCheckNotFailure(parsed) ==
    << [name |-> "status",
        holds |-> parsed.executionStatus # EXECUTION_STATUS_FAILURE,
        reason |-> "Execution failed"] >>

\* a vault that takes any defined status
StatusCheckAnyDefined(parsed) ==
    << [name |-> "status",
        holds |-> parsed.executionStatus \in
                    {EXECUTION_STATUS_SUCCESS, EXECUTION_STATUS_FAILURE},
        reason |-> "Execution failed"] >>

\* require(parsed.executionStatus == EXECUTION_STATUS_SUCCESS)
StatusCheck(parsed) ==
    << [name |-> "status",
        holds |-> parsed.executionStatus = EXECUTION_STATUS_SUCCESS,
        reason |-> "Execution failed"] >>

\* a vault that takes the commitment of the empty output for a failure
CommitmentCheckNeverEmpty(parsed, agentOutput) ==
    << [name |-> "commitment",
        holds |-> /\ agentOutput # << >>
                  /\ Sha256(agentOutput) = parsed.actionCommitment,
        reason |-> "Action commitment mismatch"] >>

\* a vault that takes an empty agentOutput without comparing its digest
CommitmentCheckUnlessEmpty(parsed, agentOutput) ==
    << [name |-> "commitment",
        holds |-> \/ agentOutput = << >>
                  \/ Sha256(agentOutput) = parsed.actionCommitment,
        reason |-> "Action commitment mismatch"] >>

\* require(sha256(agentOutput) == parsed.actionCommitment)
CommitmentCheck(parsed, agentOutput) ==
    << [name |-> "commitment",
        holds |-> Sha256(agentOutput) = parsed.actionCommitment,
        reason |-> "Action commitment mismatch"] >>

\* a vault that does not look at the status
VaultChecksWithoutStatus(parsed, boundAgentId, last, agentOutput) ==
    VersionChecks(parsed) \o AgentCheck(parsed, boundAgentId)
        \o NonceChecks(parsed, last) \o CommitmentCheck(parsed, agentOutput)

\* a vault that validates the status before the nonce
VaultChecksStatusFirst(parsed, boundAgentId, last, agentOutput) ==
    VersionChecks(parsed) \o AgentCheck(parsed, boundAgentId)
        \o StatusCheck(parsed) \o NonceChecks(parsed, last)
        \o CommitmentCheck(parsed, agentOutput)

\* the require statements of execute on the parsed journal, in order
VaultChecks(parsed, boundAgentId, last, agentOutput) ==
    VersionChecks(parsed) \o AgentCheck(parsed, boundAgentId)
        \o NonceChecks(parsed, last) \o StatusCheck(parsed)
        \o CommitmentCheck(parsed, agentOutput)

\* a vault that validates the journal's fields before it verifies the proof
ChecksFieldsFirst(imageId, boundAgentId, last, sub) ==
    VaultChecks(sub.journal, boundAgentId, last, sub.agentOutput)
        \o VerifierChecks(imageId, sub.journal, sub.seal)

\* every requirement execute makes before it writes anything, in order
Checks(imageId, boundAgentId, last, sub) ==
    VerifierChecks(imageId, sub.journal, sub.seal)
        \o VaultChecks(sub.journal, boundAgentId, last, sub.agentOutput)

\* the first requirement that fails (0: none does)
FirstFailing(checks) ==
    IF \A i \in 1..Len(checks) : checks[i].holds
    THEN 0
    ELSE CHOOSE i \in 1..Len(checks) :
            /\ ~checks[i].holds
            /\ \A k \in 1..(i - 1) : checks[k].holds

\* the names of the requirements evaluated: up to the first that fails
Evaluated(checks) ==
    LET f == FirstFailing(checks)
        n == IF f = 0 THEN Len(checks) ELSE f
    IN  [i \in 1..n |-> checks[i].name]

\* a vault that records the journal's nonce before it validates it
RejectedNonceBurnt(entry, v, journal) ==
    [entry EXCEPT !.lastExecutionNonce[v] = journal.executionNonce]

\* the state a call that reverts at a require leaves (the state at its entry)
Rejected(entry, v, journal) == entry

\* a vault that returns on a failed call instead of reverting
RevertNothing(entry, current) == current

\* the state a call that reverts while running its actions leaves
Revert(entry, current) == entry

\* a vault that never writes the nonce
UpdateNonceSkipped(w, v, nonce) == w

\* line 394: lastExecutionNonce = parsed.executionNonce
UpdateNonce(w, v, nonce) == [w EXCEPT !.lastExecutionNonce[v] = nonce]

Performed(w, v, target) ==
    [w EXCEPT !.effects = Append(@, [vault |-> v, target |-> target])]

RECURSIVE ExecuteIn(_, _, _, _)
RECURSIVE RunActions(_, _, _, _, _)

\* what an external call hands back: whether it succeeded, the state it
\* leaves, and what happened inside it
CallResult(success, w, nested, calls, acc) ==
    [success |-> success, w |-> w, nested |-> nested, calls |-> calls,
     accepted |-> acc]

\* what execute, or a part of it, hands back
Outcome(ok, reason, w, nested, calls, acc) ==
    [ok |-> ok, reason |-> reason, w |-> w, nested |-> nested, calls |-> calls,
     accepted |-> acc]

\* a target that called execute(inner) and got r: it ignores r.ok and returns
Reentered(call, pre, outerNonce, inner, depth, r) ==
    CallResult(TRUE, r.w,
               <<[depth |-> depth + 1, sub |-> inner, ok |-> r.ok,
                  reason |-> r.reason, checks |-> r.checks, pre |-> pre,
                  outerNonce |-> outerNonce]>> \o r.nested,
               <<call>> \o r.calls, r.accepted)

\* the triple a re-entering target hands to execute while sub is being
\* executed: tReplay that triple, tOlder and tNext a valid triple of the nonce
\* before and after it
InnerTriple(v, sub, target) ==
    CASE target = "tReplay" -> sub
      [] target = "tOlder" -> ValidTriple(v, sub.journal.executionNonce - 1, <<Call("tOk")>>)
      [] OTHER -> ValidTriple(v, sub.journal.executionNonce + 1, <<Call("tOk")>>)

\* what the target sees when it is called
CallRecord(w, v, sub, target, depth) ==
    [depth |-> depth, target |-> target,
     frameNonce |-> sub.journal.executionNonce,
     observedNonce |-> w.lastExecutionNonce[v]]

\* target.call{value: value}(callData), made at nesting depth `depth` while
\* `sub` is being executed
TargetCall(w, v, sub, target, depth) ==
    CASE target = "tFail" ->
            CallResult(FALSE, w, << >>, <<CallRecord(w, v, sub, target, depth)>>,
                       << >>)
      [] target \in Reentering /\ depth < MaxCallDepth ->
            Reentered(CallRecord(w, v, sub, target, depth),
                      w.lastExecutionNonce[v], sub.journal.executionNonce,
                      InnerTriple(v, sub, target), depth,
                      ExecuteIn(Performed(w, v, target), v,
                                InnerTriple(v, sub, target), depth + 1))
      [] OTHER ->
            CallResult(TRUE, Performed(w, v, target), << >>,
                       <<CallRecord(w, v, sub, target, depth)>>, << >>)

\* require(success, "Call failed")
RequireSuccess(c) ==
    Outcome(c.success, IF c.success THEN "" ELSE "Call failed", c.w, c.nested,
            c.calls, c.accepted)

\* a vault that reads the value of a short payload as 0 and makes the call
ExecuteActionPaddingValue(w, v, sub, action, depth) ==
    IF "raw" \in DOMAIN action
    THEN Outcome(FALSE, "Panic: out of bounds", w, << >>, << >>, << >>)
    ELSE IF action.actionType = ACTION_TYPE_CALL
    THEN RequireSuccess(TargetCall(w, v, sub, action.target, depth))
    ELSE Outcome(TRUE, "", w, << >>, << >>, << >>)

\* _executeAction; agentOutput that parseActions reads past the end of is
\* carried as one entry `raw`, and the call reverts where it is parsed
ExecuteAction(w, v, sub, action, depth) ==
    IF "raw" \in DOMAIN action
    THEN Outcome(FALSE, "Panic: out of bounds", w, << >>, << >>, << >>)
    ELSE IF action.actionType = ACTION_TYPE_CALL
    THEN IF action.payloadLen < CALL_VALUE_BYTES
         THEN Outcome(FALSE, "Panic: out of bounds", w, << >>, << >>, << >>)
         ELSE RequireSuccess(TargetCall(w, v, sub, action.target, depth))
    ELSE Outcome(TRUE, "", w, << >>, << >>, << >>)

\* action i gave a and the actions after it gave rest
Joined(a, rest) ==
    Outcome(rest.ok, rest.reason, rest.w, a.nested \o rest.nested,
            a.calls \o rest.calls, a.accepted \o rest.accepted)

\* a loop that steps over the action after each one it runs
ThenRestSkipping(a, v, sub, i, depth) ==
    IF ~a.ok THEN a
    ELSE Joined(a, RunActions(a.w, v, sub, i + 2, depth))

\* action i ran and gave a: stop if it failed, else go on with the next
ThenRest(a, v, sub, i, depth) ==
    IF ~a.ok THEN a
    ELSE Joined(a, RunActions(a.w, v, sub, i + 1, depth))

\* for (i = 0; i < actions.length; i++) _executeAction(actions[i]), from action i
RunActions(w, v, sub, i, depth) ==
    IF i > Len(sub.agentOutput)
    THEN Outcome(TRUE, "", w, << >>, << >>, << >>)
    ELSE ThenRest(ExecuteAction(w, v, sub, sub.agentOutput[i], depth),
                  v, sub, i, depth)

\* the end of execute: the actions ran and gave r
Finish(entry, v, sub, evaluated, r) ==
    [ok |-> r.ok, reason |-> r.reason, checks |-> evaluated,
     w |-> IF r.ok THEN r.w ELSE Revert(entry, r.w),
     nested |-> r.nested, calls |-> r.calls,
     accepted |-> IF r.ok THEN <<[vault |-> v, sub |-> sub]>> \o r.accepted
                  ELSE << >>]

\* the actions gave r and the nonce is written after them
NonceWrittenAfter(r, v, nonce) == [r EXCEPT !.w = UpdateNonce(@, v, nonce)]

\* a vault that writes the nonce after it has run the actions
CheckedUpdateLast(w, v, sub, depth, checks, f) ==
    IF f # 0
    THEN [ok |-> FALSE, reason |-> checks[f].reason, checks |-> Evaluated(checks),
          w |-> Rejected(w, v, sub.journal),
          nested |-> << >>, calls |-> << >>, accepted |-> << >>]
    ELSE Finish(w, v, sub, Evaluated(checks),
                NonceWrittenAfter(RunActions(w, v, sub, 1, depth), v,
                                  sub.journal.executionNonce))

\* execute once its requirements are evaluated
Checked(w, v, sub, depth, checks, f) ==
    IF f # 0
    THEN [ok |-> FALSE, reason |-> checks[f].reason, checks |-> Evaluated(checks),
          w |-> Rejected(w, v, sub.journal),
          nested |-> << >>, calls |-> << >>, accepted |-> << >>]
    ELSE Finish(w, v, sub, Evaluated(checks),
                RunActions(UpdateNonce(w, v, sub.journal.executionNonce),
                           v, sub, 1, depth))

\* execute(journal, seal, agentOutput) on vault v in state w
ExecuteIn(w, v, sub, depth) ==
    Checked(w, v, sub, depth,
            Checks(trustedImageId[v], agentId[v], w.lastExecutionNonce[v], sub),
            FirstFailing(Checks(trustedImageId[v], agentId[v],
                                w.lastExecutionNonce[v], sub)))

----------------------------------------------------------------------------
\* The submissions the model draws from

NonceInputs == {0, 1, 2, 102}

Versions == {1, 2}

\* a call to each target, a NO_OP, and a CALL whose payload is too short to
\* hold the u64 value
Actions ==
    {Call(t) : t \in Targets}
        \cup {NoOp, [actionType |-> ACTION_TYPE_CALL, target |-> "tOk", payloadLen |-> 4]}

SimpleOutputs == {<< >>, <<Call("tOk")>>}

\* every action list of at most two actions
Outputs == {<< >>} \cup {<<a>> : a \in Actions} \cup {<<a, b>> : a, b \in Actions}

\* journals one byte short, of 209 bytes and one byte long, with the reserved
\* status byte 0x00 too
Journals ==
    {Journal(len, pv, kv, agent, nonce, Sha256(committed), status) :
        len \in {JOURNAL_LENGTH - 1, JOURNAL_LENGTH, JOURNAL_LENGTH + 1},
        pv \in Versions, kv \in Versions,
        agent \in AgentIds, nonce \in NonceInputs, committed \in SimpleOutputs,
        status \in {0, EXECUTION_STATUS_SUCCESS, EXECUTION_STATUS_FAILURE}}

\* proofs of this journal under each image, and a proof of another journal
\* (the one of the next nonce)
Seals(v, journal) ==
    {Receipt(i, journal) : i \in ImageIds}
        \cup {Receipt(DeployedImageId[v], [journal EXCEPT !.executionNonce = @ + 1])}

\* any journal with any seal and a simple output, and the valid triples of
\* every action list
Submissions(v) ==
    UNION {{Submission(j, seal, out) : seal \in Seals(v, j), out \in SimpleOutputs} :
            j \in Journals}
        \cup {ValidTriple(v, nonce, out) : nonce \in NonceInputs, out \in Outputs}

\* valid triples, of nonce 100 too, and a triple of nonce 102 that reports a
\* failure and comes without the actions it commits to
HistorySubmissions(v) ==
    {ValidTriple(v, nonce, out) :
        nonce \in NonceInputs \cup {MAX_NONCE_GAP},
        out \in {<< >>, <<Call("tOk")>>, <<Call("tReplay")>>, <<Call("tOlder")>>,
                 <<Call("tNext")>>, <<Call("tOk"), Call("tFail")>>}}
        \cup {Submission(j, Receipt(DeployedImageId[v], j), << >>) :
                 j \in {Journal(JOURNAL_LENGTH, PROTOCOL_VERSION, KERNEL_VERSION, DeployedAgentId[v], 102,
                                Sha256(<<Call("tOk")>>), EXECUTION_STATUS_FAILURE)}}

----------------------------------------------------------------------------
\* Byte strings of the wire formats
\*
\* A byte is a tagged cell: <<"b", n>> is the byte with value n, and
\* <<"w", word, i>> is byte i of a 32-byte word that is only known by name
\* (an agent id, a digest).  A byte string is held as its cells up to the last
\* non-zero byte, followed by a count of zero bytes, so that a payload of
\* MAX_AGENT_INPUT_BYTES bytes is one record.

MAX_AGENT_INPUT_BYTES == 64000
INPUT_FIXED_BYTES == 148

Byte(n) == <<"b", n>>

ZeroByte == Byte(0)

\* the cells up to the last one that is not a zero byte
KeptLength(cells) ==
    IF \A i \in 1..Len(cells) : cells[i] = ZeroByte THEN 0
    ELSE CHOOSE i \in 1..Len(cells) : cells[i] # ZeroByte /\ \A j \in (i + 1)..Len(cells) : cells[j] = ZeroByte

Bytes(cells, zeros) ==
    [explicit |-> SubSeq(cells, 1, KeptLength(cells)), zeros |-> zeros + (Len(cells) - KeptLength(cells))]

BLen(b) == Len(b.explicit) + b.zeros

\* the byte at 0-based offset i
At(b, i) == IF i < Len(b.explicit) THEN b.explicit[i + 1] ELSE ZeroByte

\* the cells at offsets from .. to-1
Cells(b, from, to) == [k \in 1..(to - from) |-> At(b, from + k - 1)]

Slice(b, from, to) ==
    IF to <= Len(b.explicit) THEN Bytes(SubSeq(b.explicit, from + 1, to), 0)
    ELSE IF from >= Len(b.explicit) THEN Bytes(<< >>, to - from)
    ELSE Bytes(SubSeq(b.explicit, from + 1, Len(b.explicit)), to - Len(b.explicit))

Concat(a, b) ==
    IF b.explicit = << >> THEN [explicit |-> a.explicit, zeros |-> a.zeros + b.zeros]
    ELSE [explicit |-> a.explicit \o [k \in 1..a.zeros |-> ZeroByte] \o b.explicit, zeros |-> b.zeros]

\* little-endian integers
RECURSIVE LEBytes(_, _)
LEBytes(n, width) == IF width = 0 THEN << >> ELSE <<Byte(n % 256)>> \o LEBytes(n \div 256, width - 1)

\* the four bytes of n, most significant first
U32BE(n) == <<Byte((n \div 16777216) % 256), Byte((n \div 65536) % 256), Byte((n \div 256) % 256), Byte(n % 256)>>

U32LE(n) == LEBytes(n, 4)

U64LE(n) == LEBytes(n, 8)

RECURSIVE ReadLE(_, _, _)
ReadLE(b, offset, width) == IF width = 0 THEN 0 ELSE At(b, offset)[2] + 256 * ReadLE(b, offset + 1, width - 1)

ReadU32LE(b, offset) == ReadLE(b, offset, 4)

ReadU64LE(b, offset) == ReadLE(b, offset, 8)

\* 32-byte words
Word32(word) == IF word[1] = "raw" THEN word[2] ELSE [i \in 1..32 |-> <<"w", word, i>>]

ReadWord32(cells) ==
    IF cells[1][1] = "w" /\ \A i \in 1..32 : cells[i] = <<"w", cells[1][2], i>> THEN cells[1][2]
    ELSE <<"raw", cells>>

ReadBytes32(b, offset) == ReadWord32(Cells(b, offset, offset + 32))

----------------------------------------------------------------------------
\* KernelInputV1 and its canonical encoding

KernelInputV1(pv, kv, agent, codeHash, constraintSet, root, nonce, opaque) ==
    [protocol_version |-> pv, kernel_version |-> kv, agent_id |-> agent, agent_code_hash |-> codeHash,
     constraint_set_hash |-> constraintSet, input_root |-> root, execution_nonce |-> nonce,
     opaque_agent_inputs |-> opaque]

EncodeInputHeader(input) ==
    U32LE(input.protocol_version) \o U32LE(input.kernel_version) \o Word32(input.agent_id)
        \o Word32(input.agent_code_hash) \o Word32(input.constraint_set_hash) \o Word32(input.input_root)
        \o U64LE(input.execution_nonce) \o U32LE(BLen(input.opaque_agent_inputs))

EncodeInput(input) == Concat(Bytes(EncodeInputHeader(input), 0), input.opaque_agent_inputs)

\* the length prefix of opaque_agent_inputs in a buffer that holds the fixed part
DeclaredInputLength(b) == ReadU32LE(b, 144)

\* the fields of a buffer that holds the fixed part and the declared payload
ReadInput(b) ==
    KernelInputV1(ReadU32LE(b, 0), ReadU32LE(b, 4), ReadBytes32(b, 8), ReadBytes32(b, 40), ReadBytes32(b, 72),
                  ReadBytes32(b, 104), ReadU64LE(b, 136),
                  Slice(b, INPUT_FIXED_BYTES, INPUT_FIXED_BYTES + DeclaredInputLength(b)))

\* the buffer ends before the fixed part or before the declared payload does
InputTruncated(b) ==
    \/ BLen(b) < INPUT_FIXED_BYTES
    \/ BLen(b) < INPUT_FIXED_BYTES + DeclaredInputLength(b)

\* a decoder that lets any version pass
InputRulesAnyVersion(b) ==
    <<[error |-> "InputTooLarge",
       holds |-> BLen(b) >= INPUT_FIXED_BYTES => DeclaredInputLength(b) <= MAX_AGENT_INPUT_BYTES],
      [error |-> "InvalidLength",
       holds |-> BLen(b) >= INPUT_FIXED_BYTES => BLen(b) <= INPUT_FIXED_BYTES + DeclaredInputLength(b)]>>

\* a decoder that lets bytes after the declared payload pass
InputRulesPrefixOnly(b) ==
    <<[error |-> "InvalidVersion", holds |-> BLen(b) >= 4 => ReadU32LE(b, 0) = PROTOCOL_VERSION],
      [error |-> "InvalidVersion", holds |-> BLen(b) >= 8 => ReadU32LE(b, 4) = KERNEL_VERSION],
      [error |-> "InputTooLarge",
       holds |-> BLen(b) >= INPUT_FIXED_BYTES => DeclaredInputLength(b) <= MAX_AGENT_INPUT_BYTES]>>

\* the rules the decoder enforces, each on the part of the buffer it reads
InputRules(b) ==
    <<[error |-> "InvalidVersion", holds |-> BLen(b) >= 4 => ReadU32LE(b, 0) = PROTOCOL_VERSION],
      [error |-> "InvalidVersion", holds |-> BLen(b) >= 8 => ReadU32LE(b, 4) = KERNEL_VERSION],
      [error |-> "InputTooLarge",
       holds |-> BLen(b) >= INPUT_FIXED_BYTES => DeclaredInputLength(b) <= MAX_AGENT_INPUT_BYTES],
      [error |-> "InvalidLength",
       holds |-> BLen(b) >= INPUT_FIXED_BYTES => BLen(b) <= INPUT_FIXED_BYTES + DeclaredInputLength(b)]>>

InputErrors(b) ==
    {InputRules(b)[i].error : i \in {j \in 1..Len(InputRules(b)) : ~InputRules(b)[j].holds}}
        \cup (IF InputTruncated(b) THEN {"TruncatedInput"} ELSE {})

\* KernelInputV1::decode: the decoded input, or one of the errors the buffer
\* gives rise to (which of several the decoder reports first is not fixed here)
DecodeInput(b) ==
    IF InputErrors(b) = {} THEN {[ok |-> TRUE, value |-> ReadInput(b)]}
    ELSE {[ok |-> FALSE, error |-> e] : e \in InputErrors(b)}

----------------------------------------------------------------------------
\* KernelJournalV1, its encoding and the on-chain parser

KernelJournalV1(pv, kv, agent, codeHash, constraintSet, root, nonce, inputCommitment, actionCommitment, status) ==
    [protocol_version |-> pv, kernel_version |-> kv, agent_id |-> agent, agent_code_hash |-> codeHash,
     constraint_set_hash |-> constraintSet, input_root |-> root, execution_nonce |-> nonce,
     input_commitment |-> inputCommitment, action_commitment |-> actionCommitment, execution_status |-> status]

EncodeJournal(journal) ==
    Bytes(U32LE(journal.protocol_version) \o U32LE(journal.kernel_version) \o Word32(journal.agent_id)
              \o Word32(journal.agent_code_hash) \o Word32(journal.constraint_set_hash)
              \o Word32(journal.input_root) \o U64LE(journal.execution_nonce)
              \o Word32(journal.input_commitment) \o Word32(journal.action_commitment)
              \o <<Byte(journal.execution_status)>>, 0)

\* KernelOutputParser.parse
Parse(journal) ==
    IF BLen(journal) # JOURNAL_LENGTH THEN [ok |-> FALSE, reason |-> "Invalid journal length"]
    ELSE [ok |-> TRUE,
          parsed |-> [protocolVersion |-> ReadU32LE(journal, 0), kernelVersion |-> ReadU32LE(journal, 4),
                      agentId |-> ReadBytes32(journal, 8), agentCodeHash |-> ReadBytes32(journal, 40),
                      constraintSetHash |-> ReadBytes32(journal, 72), inputRoot |-> ReadBytes32(journal, 104),
                      executionNonce |-> ReadU64LE(journal, 136), inputCommitment |-> ReadBytes32(journal, 144),
                      actionCommitment |-> ReadBytes32(journal, 176), executionStatus |-> At(journal, 208)[2]]]

----------------------------------------------------------------------------
\* AgentOutput, its encoding and the on-chain parser

ActionV1(actionType, target, payload) == [actionType |-> actionType, target |-> target, payload |-> payload]

\* an action is its length, then type, target, payload length and payload
EncodeAction(action) ==
    Concat(Bytes(U32LE(40 + BLen(action.payload)) \o U32LE(action.actionType) \o Word32(action.target)
                     \o U32LE(BLen(action.payload)), 0),
           action.payload)

\* the encodings of the actions one after the other: those of the first half
\* of the list, then those of the others
RECURSIVE EncodeEach(_)
EncodeEach(actions) ==
    IF actions = << >> THEN Bytes(<< >>, 0)
    ELSE IF Len(actions) = 1 THEN EncodeAction(actions[1])
    ELSE Concat(EncodeEach(SubSeq(actions, 1, Len(actions) \div 2)),
                EncodeEach(SubSeq(actions, Len(actions) \div 2 + 1, Len(actions))))

EncodeActions(actions) == Concat(Bytes(U32LE(Len(actions)), 0), EncodeEach(actions))

OutOfBounds == [ok |-> FALSE, reason |-> "out of bounds"]

\* one pass of the loop of AgentOutputParser.parseActions: the action at `offset`
ParseOne(agentOutput, offset) ==
    IF offset + 44 > BLen(agentOutput) THEN OutOfBounds
    ELSE IF offset + 44 + ReadU32LE(agentOutput, offset + 40) > BLen(agentOutput) THEN OutOfBounds
    ELSE [ok |-> TRUE,
          actions |-> <<ActionV1(ReadU32LE(agentOutput, offset + 4), ReadBytes32(agentOutput, offset + 8),
                                 Slice(agentOutput, offset + 44,
                                       offset + 44 + ReadU32LE(agentOutput, offset + 40)))>>,
          offset |-> offset + 44 + ReadU32LE(agentOutput, offset + 40)]

Appended(first, rest) ==
    IF rest.ok THEN [ok |-> TRUE, actions |-> first.actions \o rest.actions, offset |-> rest.offset] ELSE rest

\* `remaining` passes of the loop from `offset`: the first half of them, then
\* the others from where those ended
RECURSIVE ParseLoop(_, _, _)
ThenFrom(first, agentOutput, remaining) ==
    IF first.ok THEN Appended(first, ParseLoop(agentOutput, first.offset, remaining)) ELSE first

ParseLoop(agentOutput, offset, remaining) ==
    IF remaining = 0 THEN [ok |-> TRUE, actions |-> << >>, offset |-> offset]
    ELSE IF remaining = 1 THEN ParseOne(agentOutput, offset)
    ELSE ThenFrom(ParseLoop(agentOutput, offset, remaining \div 2), agentOutput, remaining - remaining \div 2)

ParseActions(agentOutput) ==
    IF BLen(agentOutput) < 4 THEN OutOfBounds
    ELSE ParseLoop(agentOutput, 4, ReadU32LE(agentOutput, 0))

\* KernelJournalV1::decode: the fields of a 209-byte buffer
ReadJournal(b) ==
    KernelJournalV1(ReadU32LE(b, 0), ReadU32LE(b, 4), ReadBytes32(b, 8), ReadBytes32(b, 40), ReadBytes32(b, 72),
                    ReadBytes32(b, 104), ReadU64LE(b, 136), ReadBytes32(b, 144), ReadBytes32(b, 176),
                    At(b, 208)[2])

JournalRules(b) ==
    <<[error |-> "InvalidLength", holds |-> BLen(b) = JOURNAL_LENGTH],
      [error |-> "InvalidVersion", holds |-> BLen(b) = JOURNAL_LENGTH => ReadU32LE(b, 0) = PROTOCOL_VERSION],
      [error |-> "InvalidVersion", holds |-> BLen(b) = JOURNAL_LENGTH => ReadU32LE(b, 4) = KERNEL_VERSION],
      [error |-> "InvalidExecutionStatus",
       holds |-> BLen(b) = JOURNAL_LENGTH =>
                     At(b, 208)[2] \in {EXECUTION_STATUS_SUCCESS, EXECUTION_STATUS_FAILURE}]>>

JournalErrors(b) == {JournalRules(b)[i].error : i \in {j \in 1..Len(JournalRules(b)) : ~JournalRules(b)[j].holds}}

DecodeJournal(b) ==
    IF JournalErrors(b) = {} THEN {[ok |-> TRUE, value |-> ReadJournal(b)]}
    ELSE {[ok |-> FALSE, error |-> e] : e \in JournalErrors(b)}

----------------------------------------------------------------------------
\* The values and buffers the codec is used on

MAX_ACTIONS_PER_OUTPUT == 64
MAX_ACTION_PAYLOAD_BYTES == 16384

Named(name) == <<"id", name>>

\* the 32 bytes 1, 2, .. 32 and the 32 zero bytes
CountingWord == <<"raw", [i \in 1..32 |-> Byte(i)]>>

ZeroWord == <<"raw", [i \in 1..32 |-> ZeroByte]>>

SmallPayload == Bytes(<<Byte(7), Byte(0), Byte(9)>>, 0)

\* payloads of 0, 3, MAX_AGENT_INPUT_BYTES (twice) and MAX_AGENT_INPUT_BYTES + 1 bytes
OpaqueInputs ==
    {Bytes(<< >>, 0), SmallPayload, Bytes(<<Byte(1)>>, MAX_AGENT_INPUT_BYTES - 1),
     Bytes(<< >>, MAX_AGENT_INPUT_BYTES), Bytes(<<Byte(1)>>, MAX_AGENT_INPUT_BYTES)}

KernelInputValues ==
    {KernelInputV1(pv, kv, agent, codeHash, ZeroWord, root, nonce, opaque) :
        pv \in Versions, kv \in Versions, agent \in {Named("agentA"), Named("agentB")},
        codeHash \in {Named("codeA"), CountingWord}, root \in {CountingWord, ZeroWord},
        nonce \in {1, 258}, opaque \in OpaqueInputs}

ValidInput(input) ==
    /\ input.protocol_version = PROTOCOL_VERSION
    /\ input.kernel_version = KERNEL_VERSION
    /\ BLen(input.opaque_agent_inputs) <= MAX_AGENT_INPUT_BYTES

\* an encoded input cut short, followed by more bytes, or declaring another payload length
Redeclared(b, n) == Concat(Concat(Slice(b, 0, 144), Bytes(U32LE(n), 0)), Slice(b, INPUT_FIXED_BYTES, BLen(b)))

Damaged(b) ==
    {Slice(b, 0, n) : n \in {0, 3, 5, 100, INPUT_FIXED_BYTES - 1, INPUT_FIXED_BYTES, BLen(b) - 1} \cap 0..(BLen(b) - 1)}
        \cup {Concat(b, Bytes(<< >>, 1)), Concat(b, Bytes(<<Byte(5), Byte(6)>>, 0))}
        \cup {Redeclared(b, n) : n \in {0, 2, 3, 4, MAX_AGENT_INPUT_BYTES, MAX_AGENT_INPUT_BYTES + 1, 70000}}

DamagedInputs ==
    UNION {Damaged(EncodeInput(KernelInputV1(pv, KERNEL_VERSION, Named("agentA"), Named("codeA"), ZeroWord,
                                             CountingWord, 258, opaque))) :
            pv \in Versions, opaque \in OpaqueInputs}

InputBuffers == {EncodeInput(input) : input \in KernelInputValues} \cup DamagedInputs

Commitments == {Sha256(Bytes(<< >>, 4)), Sha256(SmallPayload), CountingWord}

KernelJournalValues ==
    {KernelJournalV1(PROTOCOL_VERSION, KERNEL_VERSION, agent, codeHash, ZeroWord, root, nonce, inputCommitment,
                     actionCommitment, status) :
        agent \in {Named("agentA"), Named("agentB")}, codeHash \in {Named("codeA"), CountingWord},
        root \in {CountingWord, ZeroWord}, nonce \in {1, 258}, inputCommitment \in Commitments,
        actionCommitment \in Commitments, status \in {EXECUTION_STATUS_SUCCESS, EXECUTION_STATUS_FAILURE}}

WireActions ==
    {ActionV1(actionType, target, payload) :
        actionType \in {ACTION_TYPE_CALL, ACTION_TYPE_NO_OP}, target \in {Named("tOk"), CountingWord},
        payload \in {Bytes(<< >>, 0), Bytes(<< >>, CALL_VALUE_BYTES), SmallPayload,
                     Bytes(<<Byte(3)>>, MAX_ACTION_PAYLOAD_BYTES - 1)}}

ActionLists ==
    {<< >>} \cup {<<a>> : a \in WireActions} \cup {<<a, b>> : a, b \in WireActions}
        \cup {[i \in 1..MAX_ACTIONS_PER_OUTPUT |-> ActionV1(ACTION_TYPE_NO_OP, Named("tOk"), Bytes(<<Byte(i)>>, 0))]}

----------------------------------------------------------------------------
\* kernel_main_with_agent: the kernel run on an encoded input with an agent
\* and a constraint set

\* the agents: one that proposes nothing, one that proposes a call, one that
\* proposes an action carrying the first bytes of its opaque inputs, one that
\* proposes two calls
Agents == {"idle", "caller", "echo", "pair"}

\* AgentEntrypoint.code_hash
CodeHash(agent) == Named(agent)

\* AgentEntrypoint.run
AgentRun(agent, input) ==
    CASE agent = "idle" -> << >>
      [] agent = "caller" -> <<ActionV1(ACTION_TYPE_CALL, Named("tOk"), Bytes(<< >>, CALL_VALUE_BYTES))>>
      [] agent = "echo" ->
            <<ActionV1(ACTION_TYPE_NO_OP, input.agent_id,
                       IF BLen(input.opaque_agent_inputs) < 8 THEN input.opaque_agent_inputs
                       ELSE Slice(input.opaque_agent_inputs, 0, 8))>>
      [] agent = "pair" -> <<ActionV1(ACTION_TYPE_CALL, Named("tOk"), Bytes(<< >>, CALL_VALUE_BYTES)),
                             ActionV1(ACTION_TYPE_CALL, Named("tFail"), Bytes(<<Byte(1)>>, CALL_VALUE_BYTES - 1))>>

\* the constraint sets: one without limits, one that allows one whitelisted
\* target, one whose cooldown has not passed
ConstraintSets == {"open", "whitelist", "cooldown"}

\* a constraint engine that remembers that it has been asked before
ViolatesOnceOnly(constraints, input, output) ==
    /\ kernel = NoRun
    /\ constraints = "cooldown"

\* the constraint engine: the output breaks a rule of the set
Violates(constraints, input, output) ==
    CASE constraints = "open" -> FALSE
      [] constraints = "whitelist" -> \E i \in 1..Len(output) : output[i].target # Named("tOk")
      [] constraints = "cooldown" -> TRUE

EMPTY_OUTPUT_COMMITMENT == Sha256(EncodeActions(<< >>))

\* a journal that commits to the proposed actions whatever the constraints said
JournalOfCommitsAlways(input, output, violated) ==
    KernelJournalV1(input.protocol_version, input.kernel_version, input.agent_id, input.agent_code_hash,
                    input.constraint_set_hash, input.input_root, input.execution_nonce,
                    Sha256(EncodeInput(input)), Sha256(EncodeActions(output)),
                    IF violated THEN EXECUTION_STATUS_FAILURE ELSE EXECUTION_STATUS_SUCCESS)

\* a journal that reports Success and the proposed actions whatever the constraints said
JournalOfAlwaysSuccess(input, output, violated) ==
    KernelJournalV1(input.protocol_version, input.kernel_version, input.agent_id, input.agent_code_hash,
                    input.constraint_set_hash, input.input_root, input.execution_nonce,
                    Sha256(EncodeInput(input)), Sha256(EncodeActions(output)), EXECUTION_STATUS_SUCCESS)

\* a journal that commits to the opaque inputs alone
JournalOfHashedPayload(input, output, violated) ==
    KernelJournalV1(input.protocol_version, input.kernel_version, input.agent_id, input.agent_code_hash,
                    input.constraint_set_hash, input.input_root, input.execution_nonce,
                    Sha256(input.opaque_agent_inputs),
                    IF violated THEN EMPTY_OUTPUT_COMMITMENT ELSE Sha256(EncodeActions(output)),
                    IF violated THEN EXECUTION_STATUS_FAILURE ELSE EXECUTION_STATUS_SUCCESS)

\* the journal of a run that came to its end
JournalOf(input, output, violated) ==
    KernelJournalV1(input.protocol_version, input.kernel_version, input.agent_id, input.agent_code_hash,
                    input.constraint_set_hash, input.input_root, input.execution_nonce,
                    Sha256(EncodeInput(input)),
                    IF violated THEN EMPTY_OUTPUT_COMMITMENT ELSE Sha256(EncodeActions(output)),
                    IF violated THEN EXECUTION_STATUS_FAILURE ELSE EXECUTION_STATUS_SUCCESS)

Aborted(error, phases) == [emitted |-> FALSE, error |-> error, phases |-> phases]

Emitted(journal, status) ==
    [emitted |-> TRUE, journal |-> EncodeJournal(journal),
     phases |-> <<"Init", "InputValidated", "ConstraintsEvaluated", status, "JournalEmitted">>]

\* the run after the input was decoded
RunDecoded(decoded, agent, constraints) ==
    IF ~decoded.ok THEN Aborted(decoded.error, <<"Init">>)
    ELSE IF decoded.value.agent_code_hash # CodeHash(agent) THEN Aborted("AgentCodeHashMismatch", <<"Init">>)
    ELSE IF Violates(constraints, decoded.value, AgentRun(agent, decoded.value))
         THEN Emitted(JournalOf(decoded.value, AgentRun(agent, decoded.value), TRUE), "Failure")
         ELSE Emitted(JournalOf(decoded.value, AgentRun(agent, decoded.value), FALSE), "Success")

\* a kernel that runs the agent on whatever it can read of the input
KernelMainUnvalidated(inputBytes, agent, constraints) ==
    {RunDecoded(IF InputTruncated(inputBytes) THEN decoded
                ELSE [ok |-> TRUE, value |-> ReadInput(inputBytes)], agent, constraints) :
        decoded \in DecodeInput(inputBytes)}

\* the outcomes of kernel_main_with_agent(&input_bytes, &agent)
KernelMain(inputBytes, agent, constraints) ==
    {RunDecoded(decoded, agent, constraints) : decoded \in DecodeInput(inputBytes)}

\* the encoded inputs the kernel is run on
RunInputs ==
    {EncodeInput(KernelInputV1(pv, kv, agent, CodeHash(coded), ZeroWord, CountingWord, nonce, opaque)) :
        pv \in Versions, kv \in Versions, agent \in {Named("agentA"), Named("agentB")}, coded \in Agents,
        nonce \in {1, 2}, opaque \in {Bytes(<< >>, 0), SmallPayload, Bytes(<<Byte(1)>>, MAX_AGENT_INPUT_BYTES - 1)}}
        \cup DamagedInputs

----------------------------------------------------------------------------
\* The state machine

World == [lastExecutionNonce |-> lastExecutionNonce, effects |-> effects]

\* constructor
Init ==
    /\ agentId = DeployedAgentId
    /\ trustedImageId = DeployedImageId
    /\ lastExecutionNonce = [v \in Vaults |-> 0]
    /\ effects = << >>
    /\ tx = NoTx
    /\ accepted = << >>
    /\ kernel = NoRun
    /\ previous = NoRun
    /\ codec = NoCodec
    /\ registry = [a \in AgentIds |->
                      AgentInfo(IF a = "agentA" THEN "alice" ELSE "bob",
                                IF a = "agentA" THEN DeployedImageId["v1"] ELSE DeployedImageId["v2"],
                                "codeHash1", "ipfs://1", TRUE)]

\* vaults that keep one nonce between them
ApplyToAll(v, sub, track, r) ==
    /\ Len(r.w.effects) <= MaxEffects
    /\ lastExecutionNonce' = [u \in DOMAIN lastExecutionNonce |-> r.w.lastExecutionNonce[v]]
    /\ effects' = r.w.effects
    /\ tx' = [vault |-> v, sub |-> sub, ok |-> r.ok, reason |-> r.reason,
              checks |-> r.checks, pre |-> lastExecutionNonce[v],
              nested |-> r.nested, calls |-> r.calls]
    /\ accepted' = IF track THEN accepted \o r.accepted ELSE accepted

\* the outcome r of a transaction becomes the state
Apply(v, sub, track, r) ==
    /\ Len(r.w.effects) <= MaxEffects
    /\ lastExecutionNonce' = r.w.lastExecutionNonce
    /\ effects' = r.w.effects
    /\ tx' = [vault |-> v, sub |-> sub, ok |-> r.ok, reason |-> r.reason,
              checks |-> r.checks, pre |-> lastExecutionNonce[v],
              nested |-> r.nested, calls |-> r.calls]
    /\ accepted' = IF track THEN accepted \o r.accepted ELSE accepted

\* a transaction calling execute(journal, seal, agentOutput) on vault v
Execute(v, sub, track) ==
    /\ tx = NoTx
    /\ Apply(v, sub, track, ExecuteIn(World, v, sub, 0))
    /\ UNCHANGED <<agentId, trustedImageId, kernel, previous, codec, registry>>

\* the transaction is over
Return ==
    /\ tx # NoTx
    /\ tx' = NoTx
    /\ UNCHANGED <<agentId, trustedImageId, lastExecutionNonce, effects, accepted, kernel, previous, codec,
                   registry>>

Submit == \E sub \in Submissions("v1") : Execute("v1", sub, FALSE)

SubmitTracked == \E sub \in HistorySubmissions("v1") : Execute("v1", sub, TRUE)

Next == Submit \/ Return

Spec == Init /\ [][Next]_vars

NextHistory == SubmitTracked \/ Return

SpecHistory == Init /\ [][NextHistory]_vars

\* the codec at work: a value is encoded and the bytes decoded again
RoundTripInput ==
    \E input \in KernelInputValues : \E decoded \in DecodeInput(EncodeInput(input)) :
        codec' = [op |-> "input", value |-> input, bytes |-> EncodeInput(input), decoded |-> decoded]

RoundTripJournal ==
    \E journal \in KernelJournalValues : \E decoded \in DecodeJournal(EncodeJournal(journal)) :
        codec' = [op |-> "journal", value |-> journal, bytes |-> EncodeJournal(journal), decoded |-> decoded,
                  parsed |-> Parse(EncodeJournal(journal))]

RoundTripActions ==
    \E actions \in ActionLists :
        codec' = [op |-> "actions", value |-> actions, bytes |-> EncodeActions(actions),
                  decoded |-> ParseActions(EncodeActions(actions))]

\* KernelInputV1::decode on a buffer as received
DecodeBuffer ==
    \E bytes \in InputBuffers : \E decoded \in DecodeInput(bytes) :
        codec' = [op |-> "decode", bytes |-> bytes, decoded |-> decoded]

\* action bytes as they may arrive at parseActions: the encoding of no action,
\* of one call and of a call and a NO_OP; each of them followed by one more
\* byte, without its last byte, and, where there is an action, with the
\* length prefix of the first action one too large
ActionBuffers ==
    UNION {{bytes,
            Concat(bytes, Bytes(<<Byte(1)>>, 0)),
            Slice(bytes, 0, BLen(bytes) - 1),
            IF BLen(bytes) = 4 THEN bytes
            ELSE Concat(Concat(Slice(bytes, 0, 4), Bytes(U32LE(ReadU32LE(bytes, 4) + 1), 0)),
                        Slice(bytes, 8, BLen(bytes)))} :
           bytes \in {EncodeActions(actions) :
                        actions \in {<< >>,
                                     <<ActionV1(ACTION_TYPE_CALL, Named("tOk"), Bytes(<< >>, CALL_VALUE_BYTES))>>,
                                     <<ActionV1(ACTION_TYPE_CALL, Named("tOk"), Bytes(<< >>, CALL_VALUE_BYTES)),
                                       ActionV1(ACTION_TYPE_NO_OP, CountingWord, SmallPayload)>>}}}

\* AgentOutputParser.parseActions on bytes as received
ParseBuffer ==
    \E bytes \in ActionBuffers :
        codec' = [op |-> "parseActions", bytes |-> bytes, decoded |-> ParseActions(bytes)]

\* the result has been taken
CodecReturn == codec # NoCodec /\ codec' = NoCodec

NextCodec ==
    /\ \/ codec = NoCodec /\ (RoundTripInput \/ RoundTripJournal \/ RoundTripActions \/ DecodeBuffer
                               \/ ParseBuffer)
       \/ CodecReturn
    /\ UNCHANGED <<agentId, trustedImageId, lastExecutionNonce, effects, tx, accepted, kernel, previous, registry>>

SpecCodec == Init /\ [][NextCodec]_vars

\* a run of the kernel on one of the given inputs
RunOn(inputs) ==
    /\ kernel = NoRun
    /\ \E inputBytes \in inputs, agent \in Agents, constraints \in ConstraintSets :
           \E outcome \in KernelMain(inputBytes, agent, constraints) :
               kernel' = [input |-> inputBytes, agent |-> agent, constraints |-> constraints, outcome |-> outcome]
    /\ previous' = NoRun

\* another run on the same input bytes with the same agent and constraint set
KernelRerun ==
    /\ kernel # NoRun
    /\ previous = NoRun
    /\ \E outcome \in KernelMain(kernel.input, kernel.agent, kernel.constraints) :
           kernel' = [kernel EXCEPT !.outcome = outcome]
    /\ previous' = kernel

\* the runs are over
KernelReturn ==
    /\ kernel # NoRun
    /\ kernel' = NoRun
    /\ previous' = NoRun

NextKernel ==
    /\ RunOn(RunInputs) \/ KernelRerun \/ KernelReturn
    /\ UNCHANGED <<agentId, trustedImageId, lastExecutionNonce, effects, tx, accepted, codec, registry>>

SpecKernel == Init /\ [][NextKernel]_vars

\* The kernel and the vault together: the journal of a run is handed to the
\* vault with a proof of it and with action bytes of the submitter's choice.

\* what execute sees of the bytes handed in as agentOutput: the action list
\* they are the encoding of, or the bytes themselves when they are no encoding
VaultOutput(bytes) ==
    IF ParseActions(bytes).ok /\ EncodeActions(ParseActions(bytes).actions) = bytes
    THEN [i \in 1..Len(ParseActions(bytes).actions) |->
             [actionType |-> ParseActions(bytes).actions[i].actionType,
              target |-> ParseActions(bytes).actions[i].target[2],
              payloadLen |-> BLen(ParseActions(bytes).actions[i].payload),
              payload |-> ParseActions(bytes).actions[i].payload]]
    ELSE <<[raw |-> bytes]>>

\* what execute sees of the journal bytes
OnChain(journal) ==
    Journal(BLen(journal), Parse(journal).parsed.protocolVersion, Parse(journal).parsed.kernelVersion,
            Parse(journal).parsed.agentId[2], Parse(journal).parsed.executionNonce,
            Sha256(VaultOutput(Parse(journal).parsed.actionCommitment[2])),
            Parse(journal).parsed.executionStatus)

\* the journal with its status byte set to Success
Relabelled(journal) == Concat(Slice(journal, 0, 208), Bytes(<<Byte(EXECUTION_STATUS_SUCCESS)>>, 0))

\* the inputs of the runs that are proved
ProvedInputs ==
    {EncodeInput(KernelInputV1(PROTOCOL_VERSION, KERNEL_VERSION, Named("agentA"), CodeHash(coded), ZeroWord,
                               CountingWord, nonce, SmallPayload)) :
        coded \in Agents, nonce \in {1, 2}}

\* the journal of the last run is submitted to vault v1: as emitted or
\* relabelled, with the proof of the emitted journal under some image, and
\* with the proposed actions, no actions, another action or other bytes
SubmitProved ==
    /\ kernel # NoRun
    /\ kernel.outcome.emitted
    /\ \E journal \in {kernel.outcome.journal, Relabelled(kernel.outcome.journal)}, imageId \in ImageIds,
          agentOutput \in {EncodeActions(AgentRun(kernel.agent, ReadInput(kernel.input))),
                           EncodeActions(<< >>),
                           EncodeActions(<<ActionV1(ACTION_TYPE_CALL, Named("tOk"), Bytes(<< >>, CALL_VALUE_BYTES))>>),
                           Bytes(<< >>, 5)} :
           Execute("v1", Submission(OnChain(journal), Receipt(imageId, OnChain(kernel.outcome.journal)),
                                    VaultOutput(agentOutput)), FALSE)

NextEndToEnd ==
    \/ /\ tx = NoTx
       /\ RunOn(ProvedInputs) \/ KernelReturn
       /\ UNCHANGED <<agentId, trustedImageId, lastExecutionNonce, effects, tx, accepted, codec, registry>>
    \/ SubmitProved
    \/ Return

SpecEndToEnd == Init /\ [][NextEndToEnd]_vars

----------------------------------------------------------------------------
\* The journal verification flow and the vault on journals and action bytes as
\* they arrive

\* a flow that compares a Failure journal's commitment with the digest of agent_output
VerificationFlowHashingFailure(journal, agentOutput) ==
    IF Parse(journal).parsed.executionStatus \in {EXECUTION_STATUS_SUCCESS, EXECUTION_STATUS_FAILURE}
    THEN IF Sha256(agentOutput) = Parse(journal).parsed.actionCommitment
         THEN IF Parse(journal).parsed.executionStatus = EXECUTION_STATUS_SUCCESS
              THEN "Parse and execute actions"
              ELSE "Accept failure, no actions"
         ELSE "Reject: commitment mismatch"
    ELSE "no edge"

\* Verification Flow (flowchart): what is done with a journal and agent_output
VerificationFlow(journal, agentOutput) ==
    CASE Parse(journal).parsed.executionStatus = EXECUTION_STATUS_SUCCESS ->
            IF Sha256(agentOutput) = Parse(journal).parsed.actionCommitment
            THEN "Parse and execute actions"
            ELSE "Reject: commitment mismatch"
      [] Parse(journal).parsed.executionStatus = EXECUTION_STATUS_FAILURE ->
            IF Parse(journal).parsed.actionCommitment = EMPTY_OUTPUT_COMMITMENT
            THEN "Accept failure, no actions"
            ELSE "Reject: commitment mismatch"
      [] OTHER -> "no edge"

\* what is handed in.  Journals of any status byte that commit to no action
\* or to a call, with no action or a call.  And with a Success journal of
\* nonce 1 committing to them: an action whose payload has the largest allowed length, one and a
\* call whose payload has one byte more, 65 actions, a list that declares 65
\* actions and holds one, and a list cut short.
Received ==
    {[journal |-> EncodeJournal(KernelJournalV1(pv, KERNEL_VERSION, Named("agentA"), CodeHash("caller"), ZeroWord,
                                                CountingWord, nonce, Sha256(Bytes(<< >>, 0)),
                                                Sha256(EncodeActions(committed)), status)),
      agentOutput |-> EncodeActions(actions)] :
        pv \in Versions, nonce \in {1, 2},
        status \in {0, EXECUTION_STATUS_SUCCESS, EXECUTION_STATUS_FAILURE, 3, 255},
        committed, actions \in {<< >>, <<ActionV1(ACTION_TYPE_CALL, Named("tOk"), Bytes(<< >>, CALL_VALUE_BYTES))>>}}
        \cup
    {[journal |-> EncodeJournal(KernelJournalV1(PROTOCOL_VERSION, KERNEL_VERSION, Named("agentA"),
                                                CodeHash("caller"), ZeroWord, CountingWord, 1,
                                                Sha256(Bytes(<< >>, 0)), Sha256(agentOutput),
                                                EXECUTION_STATUS_SUCCESS)),
      agentOutput |-> agentOutput] :
        agentOutput \in
            {EncodeActions(actions) :
                actions \in {<<ActionV1(ACTION_TYPE_NO_OP, Named("tOk"),
                                        Bytes(<<Byte(1)>>, MAX_ACTION_PAYLOAD_BYTES - 1))>>,
                             <<ActionV1(ACTION_TYPE_NO_OP, Named("tOk"),
                                        Bytes(<<Byte(1)>>, MAX_ACTION_PAYLOAD_BYTES))>>,
                             <<ActionV1(ACTION_TYPE_CALL, Named("tOk"), Bytes(<< >>, MAX_ACTION_PAYLOAD_BYTES + 1))>>,
                             [i \in 1..(MAX_ACTIONS_PER_OUTPUT + 1) |->
                                 ActionV1(IF i = 1 THEN ACTION_TYPE_CALL ELSE ACTION_TYPE_NO_OP, Named("tOk"),
                                          Bytes(<< >>, CALL_VALUE_BYTES))]}}
                \cup {Concat(Bytes(U32LE(MAX_ACTIONS_PER_OUTPUT + 1), 0),
                             EncodeAction(ActionV1(ACTION_TYPE_NO_OP, Named("tOk"), Bytes(<< >>, 0)))),
                      Slice(EncodeActions(<<ActionV1(ACTION_TYPE_CALL, Named("tOk"),
                                                     Bytes(<< >>, CALL_VALUE_BYTES))>>), 0, 20)}}

\* a journal and agent_output arrive: the journal is decoded and the flow applied
Receive ==
    /\ codec = NoCodec
    /\ tx = NoTx
    /\ \E received \in Received : \E decoded \in DecodeJournal(received.journal) :
          codec' = [op |-> "verify", journal |-> received.journal, agentOutput |-> received.agentOutput,
                    decoded |-> decoded,
                    flow |-> VerificationFlow(received.journal, received.agentOutput)]
    /\ UNCHANGED <<agentId, trustedImageId, lastExecutionNonce, effects, tx, accepted, kernel, previous, registry>>

\* they are submitted to vault v1 with a proof of the journal
SubmitReceived ==
    /\ codec # NoCodec
    /\ Execute("v1", Submission(OnChain(codec.journal), Receipt(DeployedImageId["v1"], OnChain(codec.journal)),
                                VaultOutput(codec.agentOutput)), FALSE)

NextWire ==
    \/ Receive
    \/ SubmitReceived
    \/ Return
    \/ /\ tx = NoTx
       /\ CodecReturn
       /\ UNCHANGED <<agentId, trustedImageId, lastExecutionNonce, effects, tx, accepted, kernel, previous, registry>>

SpecWire == Init /\ [][NextWire]_vars

\* A vault whose nonce has come close to the largest uint64.  A uint64 of
\* 2^63 or more is held as that number minus 2^64: -1 is 2^64 - 1.

\* the vault v1 holds one of the 103 largest nonces, or 0
InitNearMax ==
    /\ Init!1 /\ Init!2
    /\ \E last \in {0} \cup ((0 - MAX_NONCE_GAP - 3)..(0 - 1)) :
          lastExecutionNonce = [v \in Vaults |-> IF v = "v1" THEN last ELSE 0]
    /\ Init!4 /\ Init!5 /\ Init!6 /\ Init!7 /\ Init!8 /\ Init!9 /\ Init!10

\* a valid triple of one of the 103 largest nonces or of nonce 0, 1 or 100 is
\* submitted, or the transaction is over
NextNearMax ==
    \/ \E nonce \in {0, 1, MAX_NONCE_GAP} \cup ((0 - MAX_NONCE_GAP - 3)..(0 - 1)), out \in SimpleOutputs :
          Execute("v1", ValidTriple("v1", nonce, out), FALSE)
    \/ Return

SpecNearMax == InitNearMax /\ [][NextNearMax]_vars

\* execute, requirement by requirement and action by action.  While a
\* transaction runs, tx holds the submission, the state it was entered in, how
\* many requirements have passed and which action is next; its state is
\* Checking, Executing, Committed or Rejected.

\* a transaction calls execute(journal, seal, agentOutput) on vault v
BeginExecute(v, sub) ==
    /\ tx = NoTx
    /\ Len(ExecuteIn(World, v, sub, 0).w.effects) <= MaxEffects
    /\ tx' = [vault |-> v, sub |-> sub, state |-> "Checking", passed |-> 0, next |-> 1, entry |-> World]
    /\ UNCHANGED <<agentId, trustedImageId, lastExecutionNonce, effects, accepted, kernel, previous, codec,
                   registry>>

\* the next requirement of execute is evaluated: a failed one reverts the
\* call; after the last one the nonce is written and the actions are parsed
StepRequire(checks) ==
    /\ tx # NoTx /\ tx.state = "Checking"
    /\ tx' = IF ~checks[tx.passed + 1].holds
             THEN [tx EXCEPT !.state = "Rejected"]
             ELSE [tx EXCEPT !.passed = @ + 1,
                             !.state = IF tx.passed + 1 = Len(checks) THEN "Executing" ELSE "Checking"]
    /\ lastExecutionNonce' =
          IF checks[tx.passed + 1].holds /\ tx.passed + 1 = Len(checks)
          THEN UpdateNonce(World, tx.vault, tx.sub.journal.executionNonce).lastExecutionNonce
          ELSE lastExecutionNonce
    /\ UNCHANGED <<agentId, trustedImageId, effects, accepted, kernel, previous, codec, registry>>

\* a vault that runs a failed action again instead of reverting
ActionDoneRetrying(r) ==
    /\ tx' = IF r.ok THEN [tx EXCEPT !.next = @ + 1] ELSE tx
    /\ lastExecutionNonce' = IF r.ok THEN r.w.lastExecutionNonce ELSE lastExecutionNonce
    /\ effects' = IF r.ok THEN r.w.effects ELSE effects

\* _executeAction has returned or reverted with r: go on with the next
\* action, or revert to the state at the entry of execute
ActionDone(r) ==
    /\ tx' = IF r.ok THEN [tx EXCEPT !.next = @ + 1] ELSE [tx EXCEPT !.state = "Rejected"]
    /\ lastExecutionNonce' = IF r.ok THEN r.w.lastExecutionNonce ELSE Revert(tx.entry, r.w).lastExecutionNonce
    /\ effects' = IF r.ok THEN r.w.effects ELSE Revert(tx.entry, r.w).effects

\* one pass of the loop over the actions, or its end
StepAction ==
    /\ tx # NoTx /\ tx.state = "Executing"
    /\ IF tx.next > Len(tx.sub.agentOutput)
       THEN tx' = [tx EXCEPT !.state = "Committed"] /\ UNCHANGED <<lastExecutionNonce, effects>>
       ELSE ActionDone(ExecuteAction(World, tx.vault, tx.sub, tx.sub.agentOutput[tx.next], 0))
    /\ UNCHANGED <<agentId, trustedImageId, accepted, kernel, previous, codec, registry>>

\* the transaction is over
EndExecute ==
    /\ tx # NoTx /\ tx.state \in {"Committed", "Rejected"}
    /\ tx' = NoTx
    /\ UNCHANGED <<agentId, trustedImageId, lastExecutionNonce, effects, accepted, kernel, previous, codec,
                   registry>>

\* valid triples without actions, with two actions, with a call that fails and
\* with one that re-enters execute, and the submissions of nonce 1 without
\* actions that differ from a valid one in the length, a version, the agent,
\* the status, the commitment or the seal
NextSteps ==
    \/ \E sub \in {ValidTriple("v1", nonce, out) :
                        nonce \in {1, 2, 102},
                        out \in {<< >>, <<Call("tOk"), NoOp>>, <<Call("tOk"), Call("tFail")>>,
                                 <<Call("tNext")>>}}
                    \cup {s \in Submissions("v1") :
                            /\ s.journal.executionNonce = 1 /\ s.agentOutput = << >>
                            /\ Cardinality({c \in 1..Len(Checks(DeployedImageId["v1"], DeployedAgentId["v1"], 0, s)) :
                                              ~Checks(DeployedImageId["v1"], DeployedAgentId["v1"], 0, s)[c].holds})
                                  <= 1} :
          BeginExecute("v1", sub)
    \/ StepRequire(Checks(trustedImageId[tx.vault], agentId[tx.vault], lastExecutionNonce[tx.vault], tx.sub))
    \/ StepAction
    \/ EndExecute

\* the EVM runs a transaction to its end: a requirement or an action that can
\* be evaluated is evaluated
SpecSteps ==
    /\ Init
    /\ [][NextSteps]_vars
    /\ WF_vars(StepRequire(Checks(trustedImageId[tx.vault], agentId[tx.vault], lastExecutionNonce[tx.vault],
                                  tx.sub)))
    /\ WF_vars(StepAction)

\* AgentRegistry, VaultFactory and the vaults the factory deploys

\* the accounts that call the registry and the factory
Authors == {"alice", "bob"}

\* agentId = keccak256(abi.encodePacked(author, salt)): another id for another
\* author (each author uses the salt 1)
ComputeAgentId(author, salt) ==
    CASE author = "alice" /\ salt = 1 -> "agentA"
      [] author = "bob" /\ salt = 1 -> "agentB"

\* computeVaultAddress(owner, agentId, asset, userSalt): the CREATE2 address,
\* another one for other arguments (one asset is used)
ComputeVaultAddress(owner, agent, userSalt) == <<owner, agent, userSalt>>

\* a new registry and factory: no agent is registered, no vault is deployed
\* (an address without a vault has the agent id "")
InitSystem ==
    /\ registry = [a \in AgentIds |-> AgentInfo("0x0", 0, "", "", FALSE)]
    /\ agentId = [v \in {ComputeVaultAddress(o, a, s) : o \in Authors, a \in AgentIds, s \in {1, 2}} |-> ""]
    /\ trustedImageId = [v \in DOMAIN agentId |-> 0]
    /\ lastExecutionNonce = [v \in DOMAIN agentId |-> 0]
    /\ effects = << >>
    /\ tx = NoTx
    /\ accepted = << >>
    /\ kernel = NoRun
    /\ previous = NoRun
    /\ codec = NoCodec

\* AgentRegistry.register(salt, imageId, agentCodeHash, metadataURI) by caller:
\* registers a new agent under the id of the caller and the salt; what it does
\* when the id is registered already is not said: it fails or writes the entry
Register(caller, salt, imageId, agentCodeHash, metadataURI) ==
    /\ tx = NoTx
    /\ \E ok \in IF registry[ComputeAgentId(caller, salt)].exists THEN BOOLEAN ELSE {TRUE} :
          /\ tx' = [op |-> "register", caller |-> caller, agent |-> ComputeAgentId(caller, salt), ok |-> ok]
          /\ registry' = IF ok
                         THEN [registry EXCEPT ![ComputeAgentId(caller, salt)] =
                                  AgentInfo(caller, imageId, agentCodeHash, metadataURI, TRUE)]
                         ELSE registry
    /\ UNCHANGED <<agentId, trustedImageId, lastExecutionNonce, effects, accepted, kernel, previous, codec>>

\* a registry that lets anyone update an agent
UpdateByAnyone(caller, agent, newImageId, newAgentCodeHash, newMetadataURI) ==
    /\ tx = NoTx
    /\ tx' = [op |-> "update", caller |-> caller, agent |-> agent, ok |-> registry[agent].exists]
    /\ registry' = IF ~registry[agent].exists THEN registry
                   ELSE [registry EXCEPT ![agent] =
                            AgentInfo(registry[agent].author, newImageId, newAgentCodeHash,
                                      newMetadataURI, TRUE)]
    /\ UNCHANGED <<agentId, trustedImageId, lastExecutionNonce, effects, accepted, kernel, previous, codec>>

\* a registry whose update reaches the vaults of the agent: they trust the new
\* imageId from then on
UpdateRepinning(caller, agent, newImageId, newAgentCodeHash, newMetadataURI) ==
    /\ tx = NoTx
    /\ tx' = [op |-> "update", caller |-> caller, agent |-> agent,
              ok |-> registry[agent].exists /\ caller = registry[agent].author]
    /\ registry' = IF ~(registry[agent].exists /\ caller = registry[agent].author) THEN registry
                   ELSE [registry EXCEPT ![agent] =
                            AgentInfo(registry[agent].author, newImageId, newAgentCodeHash,
                                      newMetadataURI, TRUE)]
    /\ trustedImageId' = IF ~(registry[agent].exists /\ caller = registry[agent].author) THEN trustedImageId
                         ELSE [v \in DOMAIN trustedImageId |->
                                  IF agentId[v] = agent THEN newImageId ELSE trustedImageId[v]]
    /\ UNCHANGED <<agentId, lastExecutionNonce, effects, accepted, kernel, previous, codec>>

\* AgentRegistry.update(agentId, newImageId, newAgentCodeHash, newMetadataURI)
\* by caller: only the original author can call this
Update(caller, agent, newImageId, newAgentCodeHash, newMetadataURI) ==
    /\ tx = NoTx
    /\ tx' = [op |-> "update", caller |-> caller, agent |-> agent,
              ok |-> registry[agent].exists /\ caller = registry[agent].author]
    /\ registry' = IF ~(registry[agent].exists /\ caller = registry[agent].author) THEN registry
                   ELSE [registry EXCEPT ![agent] =
                            AgentInfo(registry[agent].author, newImageId, newAgentCodeHash,
                                      newMetadataURI, TRUE)]
    /\ UNCHANGED <<agentId, trustedImageId, lastExecutionNonce, effects, accepted, kernel, previous, codec>>

\* a factory that lets anyone deploy a vault for a registered agent
CanDeployForAnyone(caller, agent, userSalt) ==
    /\ registry[agent].exists
    /\ agentId[ComputeVaultAddress(caller, agent, userSalt)] = ""
    /\ registry[agent].imageId # 0

\* what deployVault requires: the agent is registered, the caller is its
\* author, no vault is at the address yet (CREATE2), and the constructor's
\* require(_trustedImageId != bytes32(0))
CanDeploy(caller, agent, userSalt) ==
    /\ registry[agent].exists
    /\ caller = registry[agent].author
    /\ agentId[ComputeVaultAddress(caller, agent, userSalt)] = ""
    /\ registry[agent].imageId # 0

\* VaultFactory.deployVault(agentId, asset, userSalt) by caller: the vault is
\* constructed with the agent id and the imageId the registry holds now
DeployVault(caller, agent, userSalt) ==
    /\ tx = NoTx
    /\ Cardinality({v \in DOMAIN agentId : agentId[v] # ""}) < MaxVaults
    /\ tx' = [op |-> "deployVault", caller |-> caller, agent |-> agent,
              vault |-> ComputeVaultAddress(caller, agent, userSalt),
              ok |-> CanDeploy(caller, agent, userSalt)]
    /\ agentId' = IF CanDeploy(caller, agent, userSalt)
                  THEN [agentId EXCEPT ![ComputeVaultAddress(caller, agent, userSalt)] = agent]
                  ELSE agentId
    /\ trustedImageId' =
          IF CanDeploy(caller, agent, userSalt)
          THEN [trustedImageId EXCEPT ![ComputeVaultAddress(caller, agent, userSalt)] = registry[agent].imageId]
          ELSE trustedImageId
    /\ UNCHANGED <<lastExecutionNonce, effects, accepted, kernel, previous, codec, registry>>

\* execute on a deployed vault: a Success journal of some agent and nonce
\* without actions, proved under some image
ExecuteOnDeployed ==
    \E v \in DOMAIN agentId, agent \in AgentIds, nonce \in {1, 2}, imageId \in ImageIds :
        /\ agentId[v] # ""
        /\ \E j \in {Journal(JOURNAL_LENGTH, PROTOCOL_VERSION, KERNEL_VERSION, agent, nonce, Sha256(<< >>),
                             EXECUTION_STATUS_SUCCESS)} :
              Execute(v, Submission(j, Receipt(imageId, j), << >>), FALSE)

NextSystem ==
    \/ \E caller \in Authors, imageId \in {0} \cup ImageIds :
          Register(caller, 1, imageId, "codeHash1", "ipfs://1")
    \/ \E caller \in Authors, agent \in AgentIds, newImageId \in {0} \cup ImageIds :
          Update(caller, agent, newImageId, "codeHash2", "ipfs://2")
    \/ \E caller \in Authors, agent \in AgentIds, userSalt \in {1, 2} : DeployVault(caller, agent, userSalt)
    \/ ExecuteOnDeployed
    \/ Return

SpecSystem == InitSystem /\ [][NextSystem]_vars

\* Properties

\* the error a revert reason stands for
ErrorName(reason) ==
    CASE reason = "Invalid journal length" -> "InvalidLength"
      [] reason = "Invalid proof" -> "InvalidProof"
      [] reason \in {"Unsupported protocol", "Unsupported kernel"} ->
            "UnsupportedVersion"
      [] reason = "Wrong agent" -> "WrongAgent"
      [] reason = "Invalid nonce" -> "StaleOrReplayedNonce"
      [] reason = "Nonce gap too large" -> "NonceGapTooLarge"
      [] reason = "Execution failed" -> "AgentReportedFailure"
      [] reason = "Action commitment mismatch" -> "ActionCommitmentMismatch"
      [] OTHER -> reason

ProtocolErrors ==
    {"InvalidProof", "WrongAgent", "UnsupportedVersion", "StaleOrReplayedNonce",
     "NonceGapTooLarge", "AgentReportedFailure", "ActionCommitmentMismatch"}

\* the conditions of C1 for submission sub to vault v whose nonce was last
AllHeld(v, sub, last) ==
    /\ RiscZeroVerify(sub.seal, trustedImageId[v], Sha256(sub.journal))
    /\ sub.journal.agentId = agentId[v]
    /\ sub.journal.protocolVersion = 1
    /\ sub.journal.kernelVersion = 1
    /\ U64Gt(sub.journal.executionNonce, last)
    /\ sub.journal.executionStatus = EXECUTION_STATUS_SUCCESS
    /\ Sha256(sub.agentOutput) = sub.journal.actionCommitment

\* C1: a submission is committed (its nonce written, its actions run) only if
\* the oracle accepted its proof for the pinned image and its journal's digest,
\* its agent id is the bound one, both versions are 1, its nonce is above the
\* last one, its status is Success and its actions hash to its commitment.
\* This holds of the transaction's own submission and of every submission
\* accepted inside it; and the state changes only if the transaction committed.
C1_CommittedOnlyIfAllChecksHeld ==
    tx # NoTx =>
        /\ tx.ok => AllHeld(tx.vault, tx.sub, tx.pre)
        /\ \A i \in 1..Len(tx.nested) :
              tx.nested[i].ok => AllHeld(tx.vault, tx.nested[i].sub, tx.nested[i].pre)
        /\ lastExecutionNonce[tx.vault] # tx.pre => tx.ok

\* a submission with two actions was committed: both calls were made and the
\* nonce is the journal's
C1_Witness ==
    /\ tx # NoTx
    /\ tx.ok
    /\ Len(tx.sub.agentOutput) = 2
    /\ Len(tx.calls) = 2
    /\ lastExecutionNonce[tx.vault] = tx.sub.journal.executionNonce
    /\ tx.pre = 1

\* the nonce of the i-th accepted submission
AcceptedNonce(history, i) == history[i].sub.journal.executionNonce

\* the submissions a transaction added to the history
NewlyAccepted == (Len(accepted) + 1)..Len(accepted')

AcceptedBefore(history, v, sub) ==
    \E i \in 1..Len(history) : history[i] = [vault |-> v, sub |-> sub]

\* C3: a triple the vault has accepted is rejected when it is submitted again,
\* by a later transaction or from inside an action: the nonce check is the one
\* that fails, the reason is StaleOrReplayedNonce, no call is made and the
\* state stays as it was.
C3_ReplayRejected ==
    [][ (tx = NoTx /\ tx' # NoTx) =>
          /\ AcceptedBefore(accepted, tx'.vault, tx'.sub) =>
                /\ ~tx'.ok
                /\ ErrorName(tx'.reason) = "StaleOrReplayedNonce"
                /\ tx'.checks[Len(tx'.checks)] = "nonce"
                /\ tx'.calls = << >>
                /\ effects' = effects
                /\ lastExecutionNonce' = lastExecutionNonce
                /\ accepted' = accepted
          /\ \A i \in 1..Len(tx'.nested) :
                (\/ AcceptedBefore(accepted, tx'.vault, tx'.nested[i].sub)
                 \/ tx'.nested[i].sub = tx'.sub) =>
                    /\ ~tx'.nested[i].ok
                    /\ ErrorName(tx'.nested[i].reason) = "StaleOrReplayedNonce"
      ]_vars

\* the first triple accepted was submitted again after a second one had been
\* accepted, and was rejected at the nonce check
C3_Witness ==
    /\ tx # NoTx
    /\ Len(accepted) >= 2
    /\ accepted[1] = [vault |-> tx.vault, sub |-> tx.sub]
    /\ tx.sub.agentOutput # << >>
    /\ ~tx.ok
    /\ tx.reason = "Invalid nonce"

CallActions(agentOutput) ==
    {i \in 1..Len(agentOutput) : agentOutput[i].actionType = ACTION_TYPE_CALL}

\* the calls the transaction's own actions made
OwnCalls(calls) == {i \in 1..Len(calls) : calls[i].depth = 0}

\* C6: when an action of the batch fails (its call fails, or its payload cannot
\* be read) the transaction fails, the calls made by the actions before it are
\* undone and the nonce is the one before the transaction; and a transaction
\* that succeeds has made the call of every CALL action of the batch.
C6_ActionFailureRollsBack ==
    [][ (tx = NoTx /\ tx' # NoTx) =>
          /\ tx'.reason \in {"Call failed", "Panic: out of bounds"} =>
                /\ ~tx'.ok
                /\ effects' = effects
                /\ lastExecutionNonce' = lastExecutionNonce
          /\ (\E i \in OwnCalls(tx'.calls) : tx'.calls[i].target = "tFail") => ~tx'.ok
          /\ tx'.ok =>
                Cardinality(OwnCalls(tx'.calls)) =
                    Cardinality(CallActions(tx'.sub.agentOutput))
      ]_vars

\* the second action's call failed after the first action's call had been
\* made; the log of calls and the nonce are those before the transaction
C6_Witness ==
    /\ tx # NoTx
    /\ ~tx.ok
    /\ tx.reason = "Call failed"
    /\ Len(tx.calls) = 2
    /\ tx.calls[1].target = "tOk"
    /\ tx.calls[2].target = "tFail"
    /\ lastExecutionNonce[tx.vault] = tx.pre
    /\ tx.pre = 1
    /\ Len(effects) = 1

\* C7: a submission rejected with InvalidProof, WrongAgent, UnsupportedVersion,
\* StaleOrReplayedNonce, NonceGapTooLarge, AgentReportedFailure or
\* ActionCommitmentMismatch made no call and leaves the vault's nonce and the
\* effects of earlier actions exactly as they were.
C7_RejectionChangesNothing ==
    [][ (tx = NoTx /\ tx' # NoTx /\ ~tx'.ok
            /\ ErrorName(tx'.reason) \in ProtocolErrors) =>
          /\ lastExecutionNonce' = lastExecutionNonce
          /\ effects' = effects
          /\ tx'.calls = << >>
      ]_vars

\* a vault that has executed actions and is at nonce 2 rejected a journal of
\* nonce 102 whose actions do not match its commitment; it still is at nonce 2
C7_Witness ==
    /\ tx # NoTx
    /\ ~tx.ok
    /\ tx.reason = "Action commitment mismatch"
    /\ tx.sub.journal.executionNonce = 102
    /\ tx.sub.agentOutput # << >>
    /\ lastExecutionNonce[tx.vault] = 2
    /\ Len(effects) = 2

\* the checks of the journal's fields
FieldChecks ==
    {"protocolVersion", "kernelVersion", "agentId", "nonce", "nonceGap", "status",
     "commitment"}

\* the oracle was asked about this submission
OracleAsked(checks) == \E i \in 1..Len(checks) : checks[i] = "proof"

\* the oracle's answer for a submission to vault v
OracleAccepts(v, sub) ==
    RiscZeroVerify(sub.seal, trustedImageId[v], Sha256(sub.journal))

\* C8 for one submission and the checks execute evaluated on it
ProofPrecedes(v, sub, ok, reason, checks) ==
    /\ (sub.journal.len = JOURNAL_LENGTH /\ ~OracleAccepts(v, sub)) =>
          /\ ~ok
          /\ ErrorName(reason) = "InvalidProof"
          /\ OracleAsked(checks)
          /\ \A i \in 1..Len(checks) : checks[i] \notin FieldChecks
    /\ \A i \in 1..Len(checks) :
          checks[i] \in FieldChecks =>
              /\ \E k \in 1..(i - 1) : checks[k] = "proof"
              /\ OracleAccepts(v, sub)

\* C8: whenever the oracle does not accept (pinned image id, digest of the
\* journal, seal) for a journal of 209 bytes, the submission is rejected with
\* InvalidProof whatever its agent id, versions, nonce, status and commitment
\* are, and none of the checks of those fields is evaluated; a field check is
\* evaluated only after the oracle was asked and accepted.  It holds of the
\* submissions made from inside actions as well.
C8_ProofCheckedFirst ==
    tx # NoTx =>
        /\ ProofPrecedes(tx.vault, tx.sub, tx.ok, tx.reason, tx.checks)
        /\ \A i \in 1..Len(tx.nested) :
              ProofPrecedes(tx.vault, tx.nested[i].sub, tx.nested[i].ok,
                            tx.nested[i].reason, tx.nested[i].checks)

\* a journal that fails every field check, with a seal of another journal, was
\* rejected with "Invalid proof"
C8_Witness ==
    /\ tx # NoTx
    /\ ~tx.ok
    /\ tx.reason = "Invalid proof"
    /\ tx.sub.seal.imageId = trustedImageId[tx.vault]
    /\ tx.sub.journal.len = JOURNAL_LENGTH
    /\ tx.sub.journal.agentId # agentId[tx.vault]
    /\ tx.sub.journal.protocolVersion # PROTOCOL_VERSION
    /\ tx.sub.journal.kernelVersion # KERNEL_VERSION
    /\ ~U64Gt(tx.sub.journal.executionNonce, tx.pre)
    /\ tx.sub.journal.executionStatus = EXECUTION_STATUS_FAILURE
    /\ Sha256(tx.sub.agentOutput) # tx.sub.journal.actionCommitment

\* C9: a journal whose length is not 209 is rejected with InvalidLength by the
\* length requirement, which is the last thing evaluated: the oracle is not
\* asked, no field is checked, no call is made and the state is unchanged; the
\* oracle is asked only about journals of 209 bytes.
C9_WrongLengthRejected ==
    [][ (tx = NoTx /\ tx' # NoTx) =>
          /\ tx'.sub.journal.len # 209 =>
                /\ ~tx'.ok
                /\ ErrorName(tx'.reason) = "InvalidLength"
                /\ tx'.checks = <<"imageId", "length">>
                /\ tx'.calls = << >>
                /\ lastExecutionNonce' = lastExecutionNonce
                /\ effects' = effects
          /\ OracleAsked(tx'.checks) => tx'.sub.journal.len = 209
      ]_vars

\* a journal of 210 bytes that is otherwise that of a valid triple, with a
\* seal proving it, was rejected with "Invalid journal length"
C9_Witness ==
    /\ tx # NoTx
    /\ ~tx.ok
    /\ tx.reason = "Invalid journal length"
    /\ tx.sub.journal.len = 210
    /\ tx.sub = [ValidTriple(tx.vault, tx.pre + 1, tx.sub.agentOutput)
                    EXCEPT !.journal.len = 210,
                           !.seal = Receipt(trustedImageId[tx.vault],
                                            tx.sub.journal)]
    /\ tx.sub.agentOutput # << >>

\* which conditions a submission to vault v violates when the vault's nonce is
\* last, by the error each one is reported with
Violations(v, sub, last) ==
    [InvalidProof |-> ~OracleAccepts(v, sub),
     WrongAgent |-> sub.journal.agentId # agentId[v],
     UnsupportedVersion |->
        sub.journal.protocolVersion # 1 \/ sub.journal.kernelVersion # 1,
     StaleOrReplayedNonce |-> ~U64Gt(sub.journal.executionNonce, last),
     NonceGapTooLarge |-> U64Gt(sub.journal.executionNonce, last + MAX_NONCE_GAP),
     AgentReportedFailure |->
        sub.journal.executionStatus # EXECUTION_STATUS_SUCCESS,
     ActionCommitmentMismatch |->
        Sha256(sub.agentOutput) # sub.journal.actionCommitment]

\* the first error of the order whose condition is violated
FirstViolated(order, violated) ==
    order[CHOOSE i \in 1..Len(order) :
            /\ violated[order[i]]
            /\ \A k \in 1..(i - 1) : ~violated[order[k]]]

\* a submission with a 209-byte journal that violates a condition is rejected
\* with the first error of the order whose condition it violates
ReportedInOrder(order, v, sub, last, ok, reason) ==
    (/\ sub.journal.len = JOURNAL_LENGTH
     /\ ~U64AddOverflows(last, MAX_NONCE_GAP)
     /\ \E e \in ProtocolErrors : Violations(v, sub, last)[e]) =>
        /\ ~ok
        /\ ErrorName(reason) = FirstViolated(order, Violations(v, sub, last))

\* the order C10 states
StatedOrder ==
    <<"InvalidProof", "WrongAgent", "UnsupportedVersion", "StaleOrReplayedNonce",
      "NonceGapTooLarge", "AgentReportedFailure", "ActionCommitmentMismatch">>

\* the order with the versions before the agent
VersionsFirstOrder ==
    <<"InvalidProof", "UnsupportedVersion", "WrongAgent", "StaleOrReplayedNonce",
      "NonceGapTooLarge", "AgentReportedFailure", "ActionCommitmentMismatch">>

PassesUpToNonce(v, sub, last) ==
    /\ sub.journal.len = JOURNAL_LENGTH
    /\ OracleAccepts(v, sub)
    /\ sub.journal.protocolVersion = PROTOCOL_VERSION
    /\ sub.journal.kernelVersion = KERNEL_VERSION
    /\ sub.journal.agentId = agentId[v]
    /\ U64Gt(sub.journal.executionNonce, last)
    /\ ~U64AddOverflows(last, MAX_NONCE_GAP)
    /\ U64Le(sub.journal.executionNonce, last + MAX_NONCE_GAP)

C12_CommitmentBinding ==
    [][ (tx = NoTx /\ tx' # NoTx) =>
          /\ (/\ PassesUpToNonce(tx'.vault, tx'.sub, lastExecutionNonce[tx'.vault])
              /\ tx'.sub.journal.executionStatus = EXECUTION_STATUS_SUCCESS
              /\ tx'.sub.agentOutput # tx'.sub.journal.actionCommitment[2]) =>
                /\ ~tx'.ok
                /\ ErrorName(tx'.reason) = "ActionCommitmentMismatch"
                /\ tx'.calls = << >>
                /\ lastExecutionNonce' = lastExecutionNonce
                /\ effects' = effects
          /\ (tx'.ok \/ tx'.calls # << >>) =>
                Sha256(tx'.sub.agentOutput) = tx'.sub.journal.actionCommitment
          /\ \A i \in 1..Len(tx'.nested) :
                tx'.nested[i].ok =>
                    Sha256(tx'.nested[i].sub.agentOutput) =
                        tx'.nested[i].sub.journal.actionCommitment
      ]_vars

\* a proved Success journal of the next nonce committing to one call was
\* submitted with no actions and rejected with "Action commitment mismatch"
C12_Witness ==
    /\ tx # NoTx
    /\ ~tx.ok
    /\ tx.reason = "Action commitment mismatch"
    /\ PassesUpToNonce(tx.vault, tx.sub, tx.pre)
    /\ tx.sub.journal.executionStatus = EXECUTION_STATUS_SUCCESS
    /\ tx.sub.journal.actionCommitment = Sha256(<<Call("tOk")>>)
    /\ tx.sub.agentOutput = << >>
    /\ lastExecutionNonce[tx.vault] = 1

\* the error of the codec that a decoder error stands for
CodecErrorName(error) ==
    CASE error = "InputTooLarge" -> "FieldOutOfRange"
      [] error = "InvalidLength" -> "TrailingBytes"
      [] OTHER -> error

ParsedFields(journal) ==
    [protocolVersion |-> journal.protocol_version, kernelVersion |-> journal.kernel_version,
     agentId |-> journal.agent_id, agentCodeHash |-> journal.agent_code_hash,
     constraintSetHash |-> journal.constraint_set_hash, inputRoot |-> journal.input_root,
     executionNonce |-> journal.execution_nonce, inputCommitment |-> journal.input_commitment,
     actionCommitment |-> journal.action_commitment, executionStatus |-> journal.execution_status]

\* C19: decoding the encoding of a valid KernelInput, of a KernelJournal and
\* of an action list within the bounds gives the value back; the encoded
\* journal is 209 bytes and the on-chain parser reads from it exactly the
\* fields that were encoded.
C19_CodecRoundTrip ==
    /\ (codec.op = "input" /\ ValidInput(codec.value)) =>
            /\ codec.decoded = [ok |-> TRUE, value |-> codec.value]
            /\ BLen(codec.bytes) = 148 + BLen(codec.value.opaque_agent_inputs)
    /\ codec.op = "journal" =>
            /\ codec.decoded = [ok |-> TRUE, value |-> codec.value]
            /\ BLen(codec.bytes) = 209
            /\ codec.parsed = [ok |-> TRUE, parsed |-> ParsedFields(codec.value)]
    /\ codec.op = "actions" => codec.decoded.ok /\ codec.decoded.actions = codec.value

C19_Witness ==
    /\ codec.op = "journal"
    /\ codec.value.execution_nonce = 258
    /\ codec.value.agent_code_hash = CountingWord
    /\ codec.value.action_commitment = Sha256(SmallPayload)
    /\ codec.parsed.ok
    /\ codec.parsed.parsed.executionNonce = 258

\* the cases of a buffer in which decoding a KernelInput has to fail
Truncated(b) == BLen(b) < 148 \/ BLen(b) < 148 + ReadU32LE(b, 144)

Trailing(b) == BLen(b) >= 148 /\ BLen(b) > 148 + ReadU32LE(b, 144)

OutOfRange(b) == BLen(b) >= 148 /\ ReadU32LE(b, 144) > 64000

WrongVersion(b) == BLen(b) >= 8 /\ (ReadU32LE(b, 0) # 1 \/ ReadU32LE(b, 4) # 1)

Applicable(b) ==
    {name \in {"TruncatedInput", "TrailingBytes", "FieldOutOfRange", "InvalidVersion"} :
        \/ name = "TruncatedInput" /\ Truncated(b)
        \/ name = "TrailingBytes" /\ Trailing(b)
        \/ name = "FieldOutOfRange" /\ OutOfRange(b)
        \/ name = "InvalidVersion" /\ (WrongVersion(b) \/ (BLen(b) >= 4 /\ ReadU32LE(b, 0) # 1))}

\* C20: decoding a buffer that is truncated, that has trailing bytes or that
\* declares more than 64,000 bytes of opaque inputs gives an error, and the
\* error is one of those the buffer gives rise to (TruncatedInput,
\* TrailingBytes, FieldOutOfRange, or the version error); decoding gives a
\* structure only when the buffer is exactly 148 + payload length bytes long.
C20_DecodeFailures ==
    codec.op = "decode" =>
        /\ (Truncated(codec.bytes) \/ Trailing(codec.bytes) \/ OutOfRange(codec.bytes)) => ~codec.decoded.ok
        /\ ~codec.decoded.ok => CodecErrorName(codec.decoded.error) \in Applicable(codec.bytes)
        /\ codec.decoded.ok =>
                /\ BLen(codec.bytes) = 148 + BLen(codec.decoded.value.opaque_agent_inputs)
                /\ BLen(codec.decoded.value.opaque_agent_inputs) <= 64000

C20_Witness ==
    /\ codec.op = "decode"
    /\ BLen(codec.bytes) = 148 + 64000
    /\ ReadU32LE(codec.bytes, 144) = 64001
    /\ ~codec.decoded.ok
    /\ codec.decoded.error = "TruncatedInput"

\* what the last run of the kernel was given and what it emitted
RunInput == ReadInput(kernel.input)

RunJournal == Parse(kernel.outcome.journal).parsed

Ran == kernel # NoRun

\* the input was well-formed and named the agent's code
InputAccepted ==
    /\ ~Truncated(kernel.input) /\ ~Trailing(kernel.input) /\ ~OutOfRange(kernel.input)
    /\ ~WrongVersion(kernel.input)
    /\ RunInput.agent_code_hash = CodeHash(kernel.agent)

\* the constraint set reported a violation by the actions the agent proposed
ViolationReported ==
    /\ InputAccepted
    /\ Violates(kernel.constraints, RunInput, AgentRun(kernel.agent, RunInput))

EmptyEncoding == Bytes(<<Byte(0), Byte(0), Byte(0), Byte(0)>>, 0)

\* C13: a run in which the constraint set reports a violation emits a
\* journal, and that journal has status Failure and commits to the 4-byte
\* zero encoding of the empty action list, whatever the agent proposed.
C13_FailureSentinel ==
    (Ran /\ ViolationReported) =>
        /\ kernel.outcome.emitted
        /\ RunJournal.executionStatus = EXECUTION_STATUS_FAILURE
        /\ RunJournal.actionCommitment = Sha256(EmptyEncoding)

C13_Witness ==
    /\ Ran
    /\ ViolationReported
    /\ kernel.agent = "pair"
    /\ kernel.constraints = "whitelist"
    /\ kernel.outcome.emitted
    /\ RunJournal.executionStatus = EXECUTION_STATUS_FAILURE

\* C14: every emitted journal has status Failure exactly when it commits to
\* the empty output; no Success journal carries the empty-output commitment.
C14_FailureIffEmptyCommitment ==
    (Ran /\ kernel.outcome.emitted) =>
        (RunJournal.executionStatus = EXECUTION_STATUS_FAILURE
            <=> RunJournal.actionCommitment = Sha256(EmptyEncoding))

C17_JournalBoundToInput ==
    (Ran /\ kernel.outcome.emitted) =>
        /\ RunJournal.protocolVersion = RunInput.protocol_version
        /\ RunJournal.kernelVersion = RunInput.kernel_version
        /\ RunJournal.agentId = RunInput.agent_id
        /\ RunJournal.agentCodeHash = RunInput.agent_code_hash
        /\ RunJournal.constraintSetHash = RunInput.constraint_set_hash
        /\ RunJournal.inputRoot = RunInput.input_root
        /\ RunJournal.executionNonce = RunInput.execution_nonce
        /\ RunJournal.inputCommitment = Sha256(EncodeInput(RunInput))
        /\ RunJournal.inputCommitment = Sha256(kernel.input)

C17_Witness ==
    /\ Ran
    /\ kernel.outcome.emitted
    /\ RunJournal.executionStatus = EXECUTION_STATUS_FAILURE
    /\ RunJournal.executionNonce = 2
    /\ RunJournal.agentId = Named("agentB")
    /\ BLen(RunInput.opaque_agent_inputs) = 64000
    /\ RunJournal.inputCommitment = Sha256(kernel.input)

\* C18: a run on an input that is truncated, has trailing bytes, declares
\* more than 64,000 bytes of opaque inputs or has a version other than 1
\* emits no journal; every emitted journal has status Success or Failure.
C18_InvalidInputAborts ==
    Ran =>
        /\ (Truncated(kernel.input) \/ Trailing(kernel.input) \/ OutOfRange(kernel.input)
                \/ WrongVersion(kernel.input)) =>
               /\ ~kernel.outcome.emitted
               /\ CodecErrorName(kernel.outcome.error) \in Applicable(kernel.input)
        /\ kernel.outcome.emitted =>
               RunJournal.executionStatus \in {EXECUTION_STATUS_SUCCESS, EXECUTION_STATUS_FAILURE}

C18_Witness ==
    /\ Ran
    /\ BLen(kernel.input) = 148
    /\ ReadU32LE(kernel.input, 4) = 2
    /\ kernel.constraints = "cooldown"
    /\ ~kernel.outcome.emitted
    /\ kernel.outcome.error = "InvalidVersion"

\* C15: when the constraint set reported a violation in a run, no submission
\* of that run's journal, as emitted or relabelled, under any image and with
\* any action bytes, is accepted, makes a call, advances a nonce or leaves an effect.
C15_ViolationHasNoEffect ==
    [][ (tx = NoTx /\ tx' # NoTx /\ Ran /\ ViolationReported) =>
            /\ ~tx'.ok
            /\ tx'.calls = << >>
            /\ lastExecutionNonce' = lastExecutionNonce
            /\ effects' = effects ]_vars

C15_Witness ==
    /\ tx # NoTx
    /\ Ran
    /\ ViolationReported
    /\ kernel.agent = "caller"
    /\ tx.sub.journal.executionStatus = EXECUTION_STATUS_FAILURE
    /\ tx.sub.seal.imageId = trustedImageId["v1"]
    /\ tx.sub.agentOutput # << >>
    /\ ~tx.ok
    /\ tx.reason = "Execution failed"

\* the nonce of the journal is more than MAX_NONCE_GAP above last
GapTooLarge(sub, last) ==
    /\ ~U64AddOverflows(last, MAX_NONCE_GAP)
    /\ U64Gt(sub.journal.executionNonce, last + MAX_NONCE_GAP)

CallTargets(agentOutput) ==
    LET calls == SelectSeq(agentOutput, LAMBDA a : a.actionType = ACTION_TYPE_CALL)
    IN  [i \in 1..Len(calls) |-> calls[i].target]

\* the targets called by the frame of nesting depth `depth` that executes the
\* journal of nonce `nonce`, in the order of the calls
FrameTargets(calls, depth, nonce) ==
    LET own == SelectSeq(calls, LAMBDA c : c.depth = depth /\ c.frameNonce = nonce)
    IN  [i \in 1..Len(own) |-> own[i].target]

ForwardPass(status) ==
    <<"Init", "InputValidated", "ConstraintsEvaluated", status, "JournalEmitted">>

\* the phases the last run went through
RunPhases == kernel.outcome.phases

ReceivedJournal == Parse(codec.journal).parsed

\* the status byte of the journal that arrived is neither Success nor Failure
ReservedStatus ==
    /\ codec # NoCodec
    /\ ReceivedJournal.executionStatus \notin {EXECUTION_STATUS_SUCCESS, EXECUTION_STATUS_FAILURE}

\* C24: a 209-byte journal whose status byte is neither 0x01 nor 0x02 does not
\* decode: the decoder fails, with InvalidExecutionStatus when the versions
\* are 1 (and with that or InvalidVersion when they are not); and a
\* submission of it to the vault, with a proof of it and whatever actions, is
\* rejected at the status check or before it, makes no call and leaves the
\* nonce and the effects as they were.
C24_ReservedStatusNeverValidates ==
    [][ (ReservedStatus') =>
          /\ ~codec'.decoded.ok
          /\ codec'.decoded.error \in {"InvalidExecutionStatus", "InvalidVersion"}
          /\ (ReceivedJournal'.protocolVersion = PROTOCOL_VERSION
                /\ ReceivedJournal'.kernelVersion = KERNEL_VERSION) =>
                codec'.decoded.error = "InvalidExecutionStatus"
          /\ (tx = NoTx /\ tx' # NoTx) =>
                /\ ~tx'.ok
                /\ tx'.calls = << >>
                /\ tx'.checks[Len(tx'.checks)] \in {"protocolVersion", "nonce", "nonceGap", "status"}
                /\ lastExecutionNonce' = lastExecutionNonce
                /\ effects' = effects
      ]_vars

\* a journal of status 0xFF with versions 1 and the next nonce failed to
\* decode with InvalidExecutionStatus; submitted with a proof of it and with
\* the call it commits to, it was rejected at the status check by a vault that
\* has executed a call before and still is at nonce 1
C24_Witness ==
    /\ ReservedStatus
    /\ ReceivedJournal.executionStatus = 255
    /\ codec.decoded.error = "InvalidExecutionStatus"
    /\ tx # NoTx
    /\ ~tx.ok
    /\ tx.reason = "Execution failed"
    /\ tx.checks[Len(tx.checks)] = "status"
    /\ tx.sub.journal.executionNonce = 2
    /\ tx.sub.agentOutput # << >>
    /\ Sha256(tx.sub.agentOutput) = tx.sub.journal.actionCommitment
    /\ lastExecutionNonce["v1"] = 1
    /\ Len(effects) = 1

OverLimits(agentOutput) ==
    \/ BLen(agentOutput) >= 4 /\ ReadU32LE(agentOutput, 0) > MAX_ACTIONS_PER_OUTPUT
    \/ /\ ParseActions(agentOutput).ok
       /\ \E i \in 1..Len(ParseActions(agentOutput).actions) :
              BLen(ParseActions(agentOutput).actions[i].payload) > MAX_ACTION_PAYLOAD_BYTES

\* C21: a submission whose action bytes declare more than 64 actions or an
\* action payload of more than 16,384 bytes is rejected before any action is
\* executed: the transaction fails, no call is made, and the nonce and the
\* effects stay as they were.
C21_OverLimitsRejected ==
    [][ (tx = NoTx /\ tx' # NoTx /\ OverLimits(codec.agentOutput)) =>
          /\ ~tx'.ok
          /\ tx'.calls = << >>
          /\ lastExecutionNonce' = lastExecutionNonce
          /\ effects' = effects
      ]_vars

\* the transaction of this step is a call of the registry's or the factory's
\* function op
Calls(op) == tx = NoTx /\ "op" \in DOMAIN tx' /\ tx'.op = op

\* C26: AgentRegistry.update succeeds only when the caller is the author that
\* registered the agent id; a call by anyone else fails and leaves the whole
\* registry (imageId, agentCodeHash, metadataURI, author of every entry) as it
\* was; and no step changes the recorded author of a registered agent id.
C26_UpdateOnlyByAuthor ==
    [][/\ Calls("update") =>
            /\ tx'.ok => registry[tx'.agent].exists /\ tx'.caller = registry[tx'.agent].author
            /\ tx'.caller # registry[tx'.agent].author => ~tx'.ok /\ registry' = registry
       /\ \A a \in DOMAIN registry :
            registry[a].exists => registry'[a].exists /\ registry'[a].author = registry[a].author]_vars

\* an update by another caller than the author was refused, after an update
\* by the author went through: the entry holds the author's values
C26_Witness ==
    /\ "op" \in DOMAIN tx /\ tx.op = "update" /\ ~tx.ok
    /\ registry[tx.agent].exists
    /\ tx.caller # registry[tx.agent].author
    /\ registry[tx.agent].metadataURI = "ipfs://2"

C23_ImageIdPinned ==
    [][/\ \A v \in DOMAIN agentId :
            /\ agentId[v] # "" => agentId'[v] = agentId[v] /\ trustedImageId'[v] = trustedImageId[v]
            /\ agentId[v] = "" /\ agentId'[v] # "" =>
                  /\ Calls("deployVault") /\ tx'.ok /\ tx'.vault = v
                  /\ agentId'[v] = tx'.agent
                  /\ trustedImageId'[v] = registry[tx'.agent].imageId
                  /\ trustedImageId'[v] # 0
            /\ agentId'[v] = "" => trustedImageId'[v] = 0
       /\ tx = NoTx /\ "sub" \in DOMAIN tx' /\ tx'.ok =>
            /\ agentId[tx'.vault] # ""
            /\ tx'.sub.seal.imageId = trustedImageId[tx'.vault]
            /\ tx'.sub.journal.agentId = agentId[tx'.vault]]_vars

\* the author has updated the agent to another, non-zero imageId after a
\* vault was deployed, and the vault has since accepted a proof under the
\* imageId of its deployment
C23_Witness ==
    /\ "sub" \in DOMAIN tx /\ tx.ok
    /\ registry[agentId[tx.vault]].imageId \notin {0, trustedImageId[tx.vault]}
    /\ registry[agentId[tx.vault]].metadataURI = "ipfs://2"
    /\ tx.sub.seal.imageId = trustedImageId[tx.vault]
    /\ lastExecutionNonce[tx.vault] = tx.sub.journal.executionNonce

ShortCalls(agentOutput) ==
    {i \in CallActions(agentOutput) : agentOutput[i].payloadLen < CALL_VALUE_BYTES}

\* C36: a submission that passes every check of execute (proof, versions,
\* agent, nonce, gap, status, commitment) and whose action list holds a CALL
\* action with a payload of fewer than 8 bytes reverts: the calls of the
\* actions before it are undone and the nonce is the one before the
\* transaction.
C36_ShortCallPayloadReverts ==
    [][ (/\ tx = NoTx /\ tx' # NoTx
         /\ FirstFailing(Checks(trustedImageId[tx'.vault], agentId[tx'.vault],
                                lastExecutionNonce[tx'.vault], tx'.sub)) = 0
         /\ ShortCalls(tx'.sub.agentOutput) # {}) =>
          /\ ~tx'.ok
          /\ effects' = effects
          /\ lastExecutionNonce' = lastExecutionNonce
      ]_vars

\* a vault at nonce 1 with one call in its log was handed a valid triple of
\* nonce 2 whose first action calls a target that returns and whose second is
\* a CALL with a 4-byte payload: the call was made and undone, the nonce is 1
C36_Witness ==
    /\ tx # NoTx
    /\ ~tx.ok
    /\ tx.reason = "Panic: out of bounds"
    /\ tx.sub = ValidTriple(tx.vault, 2, <<Call("tOk"),
                     [actionType |-> ACTION_TYPE_CALL, target |-> "tOk", payloadLen |-> 4]>>)
    /\ Len(tx.calls) = 1
    /\ tx.pre = 1
    /\ lastExecutionNonce[tx.vault] = 1
    /\ Len(effects) = 1

\* the actions of an action list of a type without a handler in the
\* documented KernelVault: any type but CALL and TRANSFER_ERC20
Unhandled(agentOutput) ==
    {i \in 1..Len(agentOutput) :
        agentOutput[i].actionType \notin {ACTION_TYPE_CALL, ACTION_TYPE_TRANSFER_ERC20}}

\* C31: a submission that passes every check of execute and whose action list
\* holds an action of a type other than CALL and TRANSFER_ERC20 reverts (with
\* UnknownActionType): the action is not skipped, and the calls of the other
\* actions and the nonce write are rolled back.
C31_UnknownActionTypeReverts ==
    [][ (/\ tx = NoTx /\ tx' # NoTx
         /\ FirstFailing(Checks(trustedImageId[tx'.vault], agentId[tx'.vault],
                                lastExecutionNonce[tx'.vault], tx'.sub)) = 0
         /\ Unhandled(tx'.sub.agentOutput) # {}) =>
          /\ ~tx'.ok
          /\ effects' = effects
          /\ lastExecutionNonce' = lastExecutionNonce
      ]_vars

\* C34: a Success journal whose action_commitment is the commitment of the
\* empty output, submitted with the four zero bytes of the empty action list
\* and a proof of it, is accepted when its versions are 1, its agent id is
\* the bound one and its nonce is above the vault's by at most the gap: no
\* call is made, the log of calls stays as it was, and the vault's nonce
\* becomes the journal's.
C34_EmptySuccessAccepted ==
    [][ (/\ tx = NoTx /\ tx' # NoTx /\ codec # NoCodec
         /\ codec.agentOutput = EmptyEncoding
         /\ ReceivedJournal.executionStatus = EXECUTION_STATUS_SUCCESS
         /\ ReceivedJournal.actionCommitment = EMPTY_OUTPUT_COMMITMENT
         /\ ReceivedJournal.protocolVersion = 1
         /\ ReceivedJournal.kernelVersion = 1
         /\ ReceivedJournal.agentId = Named(agentId[tx'.vault])
         /\ ReceivedJournal.executionNonce > lastExecutionNonce[tx'.vault]
         /\ ReceivedJournal.executionNonce <= lastExecutionNonce[tx'.vault] + MAX_NONCE_GAP) =>
          /\ tx'.ok
          /\ tx'.sub.agentOutput = << >>
          /\ tx'.calls = << >>
          /\ effects' = effects
          /\ lastExecutionNonce'[tx'.vault] = ReceivedJournal.executionNonce
      ]_vars

\* a vault that has executed a call and is at nonce 1 accepted a Success journal
\* of nonce 2 committing to the empty output: no call was made, it is at nonce 2
C34_Witness ==
    /\ codec # NoCodec
    /\ codec.agentOutput = EmptyEncoding
    /\ ReceivedJournal.executionStatus = EXECUTION_STATUS_SUCCESS
    /\ ReceivedJournal.actionCommitment = EMPTY_OUTPUT_COMMITMENT
    /\ tx # NoTx
    /\ tx.ok
    /\ tx.pre = 1
    /\ tx.calls = << >>
    /\ Len(effects) = 1
    /\ lastExecutionNonce[tx.vault] = 2

\* lastExecutionNonce + 100 does not fit in 64 bits: last is above
\* 2^64 - 1 - 100, that is, one of the 100 largest uint64
AboveGapRoom(last) == last < 0 /\ last >= 0 - MAX_NONCE_GAP

\* nonce is above last by at least 1 and at most 100, as numbers
WithinGapOf(nonce, last) ==
    /\ (nonce < 0) = (last < 0)
    /\ nonce > last
    /\ nonce - last <= MAX_NONCE_GAP

\* C35: lastExecutionNonce + 100 is computed in checked uint64 arithmetic.
\* When lastExecutionNonce is above 2^64 - 1 - 100 no submission is accepted
\* and no step changes the nonce any more: a submission whose nonce is not
\* above the vault's fails with "Invalid nonce" and every other one, valid
\* in all else, with the overflow panic. For every smaller lastExecutionNonce
\* a submission valid in all else is accepted exactly when its nonce is above
\* the vault's by at most 100.
C35_GapAdditionChecked ==
    [][ /\ AboveGapRoom(lastExecutionNonce["v1"]) => lastExecutionNonce' = lastExecutionNonce
        /\ (tx = NoTx /\ tx' # NoTx) =>
              /\ AboveGapRoom(tx'.pre) =>
                    /\ ~tx'.ok
                    /\ tx'.reason = IF (tx'.sub.journal.executionNonce < 0
                                          /\ tx'.sub.journal.executionNonce > tx'.pre)
                                    THEN "Panic: arithmetic overflow" ELSE "Invalid nonce"
              /\ ~AboveGapRoom(tx'.pre) =>
                    (tx'.ok <=> WithinGapOf(tx'.sub.journal.executionNonce, tx'.pre))
      ]_vars

\* a vault that started at 2^64 - 1 - 100 or below has accepted the nonce
\* 2^64 - 1 - 50 with a call, and then turned a valid triple of the nonce
\* 2^64 - 1 away with the overflow panic
C35_Witness ==
    /\ tx # NoTx
    /\ ~tx.ok
    /\ tx.reason = "Panic: arithmetic overflow"
    /\ tx.pre = 0 - 51
    /\ tx.sub.journal.executionNonce = 0 - 1
    /\ lastExecutionNonce["v1"] = 0 - 51
    /\ Len(effects) = 1

\* C33: the decoder of the action bytes follows the wire format exactly: it
\* succeeds only on bytes that end where the last action ends (nothing is
\* left over, nothing is missing) and in which the length prefix of every
\* action is 40 plus its payload length, so that the bytes it accepts are the
\* encoding of the action list it returns and no two byte strings give the
\* same list.
C33_DecodingFollowsWireFormat ==
    (codec # NoCodec /\ codec.op = "parseActions" /\ codec.decoded.ok) =>
        /\ codec.decoded.offset = BLen(codec.bytes)
        /\ EncodeActions(codec.decoded.actions) = codec.bytes

\* the transaction in flight has not ended yet
InFlight == tx # NoTx /\ tx.state \in {"Checking", "Executing"}

\* the transaction in flight has ended
Terminal == tx # NoTx /\ tx.state \in {"Committed", "Rejected"}

\* C32: every submission ends in exactly one of Committed and Rejected: it is
\* in one of the states Checking, Executing, Committed, Rejected at any time;
\* from Checking or Executing it reaches Committed or Rejected (the proof
\* oracle and every call of an action returning); once Committed or Rejected
\* it stays so until the transaction is over, with the nonce and the effects
\* it ended with; and it ends Committed exactly when execute as a whole
\* accepts it in the state it was entered in.
C32_EndsCommittedOrRejected ==
    /\ [](tx # NoTx => tx.state \in {"Checking", "Executing", "Committed", "Rejected"})
    /\ [][Terminal => (/\ tx' = NoTx
                       /\ lastExecutionNonce' = lastExecutionNonce
                       /\ effects' = effects)]_vars
    /\ [](Terminal => /\ (tx.state = "Committed") = ExecuteIn(tx.entry, tx.vault, tx.sub, 0).ok
                      /\ lastExecutionNonce = ExecuteIn(tx.entry, tx.vault, tx.sub, 0).w.lastExecutionNonce
                      /\ effects = ExecuteIn(tx.entry, tx.vault, tx.sub, 0).w.effects)
    /\ (InFlight ~> Terminal)

\* a submission of two actions has passed every requirement, run both
\* actions and is Committed at the journal's nonce
C32_Witness ==
    /\ Terminal
    /\ tx.state = "Committed"
    /\ tx.passed = 10
    /\ Len(tx.sub.agentOutput) = 2
    /\ tx.next = 3
    /\ tx.entry.lastExecutionNonce[tx.vault] = 1
    /\ lastExecutionNonce[tx.vault] = 2

====
